---- MODULE Spec2Model ----
(***************************************************************************)
(* Fault-tolerant request pipeline of day-06-error-handling                *)
(* (resilient_agent.go): token-bucket rate limiter, circuit breaker,       *)
(* retry manager, monitor and operation layer, each modelled from its Go   *)
(* methods, and ResilientAgent.Chat, which runs them in sequence for       *)
(* concurrent callers.                                                     *)
(*                                                                         *)
(* Time is a discrete clock `now` counted in ticks; one minute is          *)
(* TicksPerMinute ticks.  The rate limiter's float64 token count is kept   *)
(* exactly, as an integer number of 1/TicksPerMinute tokens, so that       *)
(*   elapsed.Seconds() * RequestsPerMinute / 60                            *)
(* is elapsedTicks * RequestsPerMinute units and one token is TokenOne     *)
(* units.  Floating-point rounding is not modelled.                        *)
(***************************************************************************)
EXTENDS Integers, Sequences, FiniteSets, TLC

\* ---------------------------------------------------------------- bounds
TicksPerMinute == 4          \* clock resolution
MaxTime == 5                 \* the clock stops advancing here
MaxBurstSize == 2            \* RateLimitConfig.BurstSize ranges over 1..MaxBurstSize
MaxRequestsPerMinute == 2    \* RateLimitConfig.RequestsPerMinute ranges over 1..
MaxCalls == 5                \* RateLimiter.Allow calls recorded in rlLog
MaxFailureThreshold == 2     \* CircuitBreakerConfig.FailureThreshold ranges over 1..
MaxRecoveryTimeout == 2      \* CircuitBreakerConfig.RecoveryTimeout, in ticks, 1..
MaxConsecutiveSuccesses == 2 \* CircuitBreakerConfig.ConsecutiveSuccesses, 1..
MaxInflight == 2             \* Chat calls admitted by the breaker and not yet recorded
MaxCount == 3                \* failureCount and successCount stop growing here
MaxMaxAttempts == 3          \* RetryConfig.MaxAttempts ranges over -1..MaxMaxAttempts
MaxBaseDelay == 1            \* RetryConfig.BaseDelay, in ticks, ranges over 0..
MaxResponseTimes == 2        \* samples RecordSuccess keeps (1000 in the code)
MaxRecords == 4              \* Monitor.Record* calls since construction or Reset
MaxDuration == 1             \* recorded durations, in ticks, range over 0..
MaxChats == 3                \* Chat calls made, over all callers
HealTime == 1                 \* in the recovery runs the operation fails only before this time
MaxMaxHistory == 2            \* NewMemory(maxHistory) with maxHistory in 0..
MaxAdds == 4                  \* AddMessage calls on one Memory
MaxShortLen == 3              \* short sample lists: every list of up to this many
MaxLatency == 3               \* latencies of the short sample lists, in ticks, 1..
MaxLongLen == 21              \* long sample lists have P95MinSamples..MaxLongLen samples
MaxFaultDuration == 2         \* InjectFault durations, in ticks, range over 1..
MaxFaultTime == 3             \* the clock stops here in the runs of the fault injector
MaxChatTime == 1             \* the clock stops here in the runs of the whole agent and of the monitor

VARIABLES
    now,            \* time.Now(), in ticks
    \* RateLimiter
    rlConfig,       \* RateLimiter.config
    tokens,         \* RateLimiter.tokens, in 1/TicksPerMinute tokens
    lastRefill,     \* RateLimiter.lastRefill
    requestTimes,   \* RateLimiter.requestTimes
    rlLog,          \* history: <<[at, ok]>> of the Allow calls made so far
    \* CircuitBreaker
    cbConfig,       \* CircuitBreaker.config
    state,          \* CircuitBreaker.state
    failureCount,   \* CircuitBreaker.failureCount
    lastFailureTime,\* CircuitBreaker.lastFailureTime
    successCount,   \* CircuitBreaker.successCount
    inflight,       \* Chat calls past CircuitBreaker.Allow(), outcome not yet recorded
    cbObs,          \* history: the last circuit-breaker call and what it saw
    failRun,        \* history: RecordFailure calls in a row since Closed with count 0
    cooling,        \* history: Open was entered and RecoveryTimeout has not yet
                    \*          elapsed since the last recorded failure
    hoSuccesses,    \* history: RecordSuccess calls in a row made while HalfOpen
    \* RetryManager.Execute, one call
    rmConfig,       \* RetryManager.config
    pc,             \* where Execute is: "loop", "select", "parked", "done"
    attempt,        \* the loop variable
    lastErr,        \* lastErr
    rmRet,          \* what Execute returned: [result, err]
    ctxErr,         \* ctx.Err(): NoError until the caller's context is done
    timerAt,        \* when the channel of time.After(delay) becomes ready
    woken,          \* the select case that woke the parked goroutine
    opLog,          \* history: the error of each operation() call, in order
    delayLog,       \* history: the delays calculateDelay returned, in order
    cancelObs,      \* history: where Execute was when the context was cancelled
    \* Monitor
    monitor,        \* the Monitor's fields
    monCalls,       \* history: Record* calls made per kind, and whether Reset ran
    mu,             \* Monitor.mu: the goroutine holding it for writing, or "free"
    rec,            \* per goroutine: where its Monitor.Record* call is
    \* ResilientAgent.Chat, one goroutine per caller
    chat,           \* per caller: where its Chat call is, and its locals
    health,         \* the last HealthStatus that GetHealthStatus returned
    \* FaultInjector
    activeFailures, \* FaultInjector.activeFailures: fault type -> expiry
    fiObs,          \* history: the last ShouldFail call and what it saw and left
    \* GetMetrics
    metrics,        \* the latency part of the last Metrics that GetMetrics returned
    \* chatbot Memory
    memory,         \* Memory: messages, maxHistory
    memObs,         \* history: the calls made on the Memory since NewMemory
    \* concurrent RateLimiter.Allow calls
    rlMu,           \* RateLimiter.mu: "free" or the goroutine that holds it
    allow,          \* per goroutine: where its Allow call is and what it has read
    allowObs,       \* history: the Allow calls that read the same time.Now()
    \* the agent's mutexes
    locks,          \* per mutex: who holds it for writing, for reading, who waits to write
    lk,             \* per goroutine: the lock operations its call has still to make
    \* concurrent calls on the FaultInjector
    fiMu,           \* FaultInjector.mu: who holds it for writing, who for reading
    fiCall,         \* per goroutine: where its FaultInjector call is
    fiFatal         \* the runtime has stopped the process: concurrent map access

rlVars == <<rlConfig, tokens, lastRefill, requestTimes, rlLog>>
cbVars == <<cbConfig, state, failureCount, lastFailureTime, successCount,
            inflight, cbObs, failRun, hoSuccesses>>
rmVars == <<rmConfig, pc, attempt, lastErr, rmRet, ctxErr, timerAt, woken,
            opLog, delayLog, cancelObs>>
monVars == <<monitor, monCalls, mu, rec>>
chatVars == <<chat, health>>
fiVars == <<activeFailures, fiObs>>
gmVars == <<metrics>>
memVars == <<memory, memObs>>
rlcVars == <<rlMu, allow, allowObs>>
lkVars == <<locks, lk>>
frVars == <<fiMu, fiCall, fiFatal>>
vars == <<now, rlVars, cbVars, cooling, rmVars, monVars, chatVars, fiVars, gmVars, memVars, rlcVars, lkVars, frVars>>

Min(a, b) == IF a <= b THEN a ELSE b

\* ---------------------------------------------------------- rate limiter

\* 1.0 token in the units of `tokens`
TokenOne == TicksPerMinute

RateLimitConfigs ==
    [RequestsPerMinute : 1..MaxRequestsPerMinute, BurstSize : 1..MaxBurstSize]

\* DefaultReliabilityConfig().RateLimit
DefaultRateLimitConfig == [RequestsPerMinute |-> 60, BurstSize |-> 10]

\* NewRateLimiter: a full bucket, lastRefill = time.Now()
NewRateLimiter(config, t) ==
    [config |-> config, tokens |-> config.BurstSize * TokenOne,
     lastRefill |-> t, requestTimes |-> <<>>]

\* a refill rate taken per second instead of per minute (the / 60.0 forgotten)
tokensToAddPerSecond(config, last, t) ==
    (t - last) * config.RequestsPerMinute * 60

\* tokensToAdd := elapsed.Seconds() * RequestsPerMinute / 60.0
tokensToAdd(config, last, t) == (t - last) * config.RequestsPerMinute

\* a refill that forgets the cap
RefillUncapped(config, tok, last, t) == tok + tokensToAdd(config, last, t)

\* rl.tokens = math.Min(rl.tokens+tokensToAdd, float64(BurstSize))
Refill(config, tok, last, t) ==
    Min(tok + tokensToAdd(config, last, t), config.BurstSize * TokenOne)

\* if rl.tokens >= 1.0
HasToken(tok) == tok >= TokenOne

\* the clean-up loop: drop the leading request times that are not after
\* cutoff = now - 1 minute; if none is after it the slice is left alone
RECURSIVE CleanRequestTimes(_, _)
CleanRequestTimes(times, cutoff) ==
    IF times = <<>> THEN times
    ELSE IF Head(times) > cutoff THEN times
    ELSE IF \E i \in 1..Len(times) : times[i] > cutoff
         THEN CleanRequestTimes(Tail(times), cutoff)
         ELSE times

\* the value RateLimiter.Allow() returns at time `now`
RateLimiterAllowResult == HasToken(Refill(rlConfig, tokens, lastRefill, now))

\* an Allow that takes two tokens for an admitted call
RateLimiterAllowTakesTwo ==
    LET refilled == Refill(rlConfig, tokens, lastRefill, now)
        ok == HasToken(refilled)
    IN /\ Len(rlLog) < MaxCalls
       /\ lastRefill' = now
       /\ tokens' = IF ok THEN refilled - 2 * TokenOne ELSE refilled
       /\ requestTimes' =
            IF ok THEN CleanRequestTimes(Append(requestTimes, now), now - TicksPerMinute)
            ELSE requestTimes
       /\ rlLog' = Append(rlLog, [at |-> now, ok |-> ok])
       /\ UNCHANGED <<now, rlConfig>>

\* func (rl *RateLimiter) Allow() bool, under rl.mu
RateLimiterAllow ==
    LET refilled == Refill(rlConfig, tokens, lastRefill, now)
        ok == HasToken(refilled)
    IN /\ Len(rlLog) < MaxCalls
       /\ lastRefill' = now
       /\ tokens' = IF ok THEN refilled - TokenOne ELSE refilled
       /\ requestTimes' =
            IF ok THEN CleanRequestTimes(Append(requestTimes, now), now - TicksPerMinute)
            ELSE requestTimes
       /\ rlLog' = Append(rlLog, [at |-> now, ok |-> ok])
       /\ UNCHANGED <<now, rlConfig>>

\* ------------------------------------------------------- circuit breaker

\* CircuitState: CircuitClosed, CircuitOpen, CircuitHalfOpen
CircuitClosed == "CLOSED"
CircuitOpen == "OPEN"
CircuitHalfOpen == "HALF_OPEN"

\* the zero time.Time of a breaker that recorded no failure: further in the
\* past than any RecoveryTimeout
ZeroTime == 0 - (MaxRecoveryTimeout + TicksPerMinute + 1)

\* TestRequestRate is kept in percent; rand.Float64() draws from [0, 1)
TestRequestRates == {0, 10, 100}
RandFloat64 == {0, 9, 10, 99}

CircuitBreakerConfigs ==
    [FailureThreshold : 1..MaxFailureThreshold,
     RecoveryTimeout : 1..MaxRecoveryTimeout,
     TestRequestRate : TestRequestRates,
     ConsecutiveSuccesses : 1..MaxConsecutiveSuccesses]

\* DefaultReliabilityConfig().CircuitBreaker (RecoveryTimeout of one minute)
DefaultCircuitBreakerConfig ==
    [FailureThreshold |-> 5, RecoveryTimeout |-> TicksPerMinute,
     TestRequestRate |-> 10, ConsecutiveSuccesses |-> 3]

\* NewCircuitBreaker: Closed, zero counters, zero lastFailureTime
NewCircuitBreaker(config) ==
    [state |-> CircuitClosed, failureCount |-> 0,
     lastFailureTime |-> ZeroTime, successCount |-> 0]

\* the breaker's fields as one value
Breaker ==
    [state |-> state, failureCount |-> failureCount,
     lastFailureTime |-> lastFailureTime, successCount |-> successCount]

\* time.Since(cb.lastFailureTime) >= cb.config.RecoveryTimeout
shouldAttemptReset(config, cb, t) ==
    t - cb.lastFailureTime >= config.RecoveryTimeout

\* a half-open breaker that admits no test request
shouldAllowTestRequestNever(config, r) == FALSE

\* rand.Float64() < cb.config.TestRequestRate, for the draw r
shouldAllowTestRequest(config, r) == r < config.TestRequestRate

\* func (cb *CircuitBreaker) Allow() bool, for the draw r; it reads the
\* state under the read lock and changes nothing
CircuitBreakerAllowResult(config, cb, t, r) ==
    CASE cb.state = CircuitClosed -> TRUE
      [] cb.state = CircuitOpen -> shouldAttemptReset(config, cb, t)
      [] cb.state = CircuitHalfOpen -> shouldAllowTestRequest(config, r)
      [] OTHER -> FALSE

\* a RecordFailure that trips only above the threshold
RecordFailureOffByOne(config, cb, t) ==
    LET n == cb.failureCount + 1
    IN [state |-> IF cb.state = CircuitClosed /\ n > config.FailureThreshold
                  THEN CircuitOpen
                  ELSE IF cb.state = CircuitHalfOpen THEN CircuitOpen
                  ELSE cb.state,
        failureCount |-> n, lastFailureTime |-> t, successCount |-> 0]

\* a RecordFailure without the half-open branch
RecordFailureNoHalfOpen(config, cb, t) ==
    LET n == cb.failureCount + 1
    IN [state |-> IF cb.state = CircuitClosed /\ n >= config.FailureThreshold
                  THEN CircuitOpen
                  ELSE cb.state,
        failureCount |-> n, lastFailureTime |-> t, successCount |-> 0]

\* a RecordFailure that leaves successCount as it is
RecordFailureKeepsSuccesses(config, cb, t) ==
    LET n == cb.failureCount + 1
    IN [state |-> IF cb.state = CircuitClosed /\ n >= config.FailureThreshold
                  THEN CircuitOpen
                  ELSE IF cb.state = CircuitHalfOpen THEN CircuitOpen
                  ELSE cb.state,
        failureCount |-> n, lastFailureTime |-> t, successCount |-> cb.successCount]

\* func (cb *CircuitBreaker) RecordFailure(), at time t
RecordFailure(config, cb, t) ==
    LET n == cb.failureCount + 1
    IN [state |-> IF cb.state = CircuitClosed /\ n >= config.FailureThreshold
                  THEN CircuitOpen
                  ELSE IF cb.state = CircuitHalfOpen THEN CircuitOpen
                  ELSE cb.state,
        failureCount |-> n, lastFailureTime |-> t, successCount |-> 0]

\* a RecordSuccess that leaves failureCount as it is
RecordSuccessKeepsFailures(config, cb) ==
    LET n == cb.successCount + 1
    IN IF cb.state = CircuitOpen
       THEN [cb EXCEPT !.state = CircuitHalfOpen, !.successCount = n]
       ELSE IF cb.state = CircuitHalfOpen /\ n >= config.ConsecutiveSuccesses
       THEN [cb EXCEPT !.state = CircuitClosed, !.successCount = 0]
       ELSE [cb EXCEPT !.successCount = n]

\* func (cb *CircuitBreaker) RecordSuccess()
RecordSuccess(config, cb) ==
    LET n == cb.successCount + 1
    IN IF cb.state = CircuitOpen
       THEN [cb EXCEPT !.state = CircuitHalfOpen, !.failureCount = 0,
                       !.successCount = n]
       ELSE IF cb.state = CircuitHalfOpen /\ n >= config.ConsecutiveSuccesses
       THEN [cb EXCEPT !.state = CircuitClosed, !.failureCount = 0,
                       !.successCount = 0]
       ELSE [cb EXCEPT !.failureCount = 0, !.successCount = n]

\* a Reset that closes the breaker and leaves failureCount as it is
ResetKeepsFailures(cb) ==
    [cb EXCEPT !.state = CircuitClosed, !.successCount = 0]

\* func (cb *CircuitBreaker) Reset(): lastFailureTime is left as it is
Reset(cb) ==
    [cb EXCEPT !.state = CircuitClosed, !.failureCount = 0, !.successCount = 0]

NoObs == [op |-> "none", before |-> CircuitClosed, ok |-> FALSE,
          ripe |-> FALSE, cooling |-> FALSE, failures |-> FALSE, successes |-> FALSE,
          reopened |-> FALSE]

\* what a circuit-breaker call saw when it was made
Observe(op, ok) ==
    [op |-> op, before |-> state, ok |-> ok,
     ripe |-> shouldAttemptReset(cbConfig, Breaker, now), cooling |-> cooling,
     failures |-> failureCount > 0, successes |-> successCount > 0,
     reopened |-> IF op = "RecordFailure" THEN state = CircuitOpen
                  ELSE IF op = "Reset" THEN FALSE
                  ELSE cbObs.reopened]

\* the breaker's fields become those of cb
SetBreaker(cb) ==
    /\ state' = cb.state
    /\ failureCount' = cb.failureCount
    /\ lastFailureTime' = cb.lastFailureTime
    /\ successCount' = cb.successCount

\* Open has just been entered, or was entered before, and RecoveryTimeout
\* has not elapsed since the last recorded failure
CoolingAfter(cb) ==
    /\ cooling \/ (cb.state = CircuitOpen /\ state # CircuitOpen)
    /\ now - cb.lastFailureTime < cbConfig.RecoveryTimeout

\* Chat's admission check: if !ra.circuitBreaker.Allow() { ... return }
CircuitBreakerAllow ==
    \E r \in RandFloat64 :
      LET ok == CircuitBreakerAllowResult(cbConfig, Breaker, now, r)
      IN /\ inflight < MaxInflight
         /\ inflight' = IF ok THEN inflight + 1 ELSE inflight
         /\ cbObs' = Observe("Allow", ok)
         /\ UNCHANGED <<cbConfig, state, failureCount, lastFailureTime,
                        successCount, failRun, hoSuccesses, cooling>>

\* Chat's failure path: ra.circuitBreaker.RecordFailure()
CircuitBreakerRecordFailure ==
    LET cb == RecordFailure(cbConfig, Breaker, now)
    IN /\ inflight > 0
       /\ failureCount < MaxCount
       /\ inflight' = inflight - 1
       /\ SetBreaker(cb)
       /\ cbObs' = Observe("RecordFailure", FALSE)
       /\ failRun' = IF failRun >= 0 THEN failRun + 1 ELSE failRun
       /\ hoSuccesses' = 0
       /\ cooling' = CoolingAfter(cb)
       /\ UNCHANGED cbConfig

\* Chat's success path: ra.circuitBreaker.RecordSuccess()
CircuitBreakerRecordSuccess ==
    LET cb == RecordSuccess(cbConfig, Breaker)
    IN /\ inflight > 0
       /\ successCount < MaxCount
       /\ inflight' = inflight - 1
       /\ SetBreaker(cb)
       /\ cbObs' = Observe("RecordSuccess", FALSE)
       /\ failRun' = IF cb.state = CircuitClosed /\ cb.failureCount = 0
                     THEN 0 ELSE 0 - 1
       /\ hoSuccesses' = IF state = CircuitHalfOpen THEN hoSuccesses + 1 ELSE 0
       /\ cooling' = CoolingAfter(cb)
       /\ UNCHANGED cbConfig

\* ResetCircuitBreakers: ra.circuitBreaker.Reset()
CircuitBreakerReset ==
    LET cb == Reset(Breaker)
    IN /\ SetBreaker(cb)
       /\ cbObs' = Observe("Reset", FALSE)
       /\ failRun' = 0
       /\ hoSuccesses' = 0
       /\ cooling' = FALSE
       /\ UNCHANGED <<cbConfig, inflight>>

\* ---------------------------------------------------------- retry manager

\* a nil error
NoError == "<nil>"

\* func indexOfSubstring(s, substr string) int
indexOfSubstring(s, substr) ==
    LET hits == {i \in 0..(Len(s) - Len(substr)) :
                    SubSeq(s, i + 1, i + Len(substr)) = substr}
    IN IF hits = {} THEN 0 - 1
       ELSE CHOOSE i \in hits : \A j \in hits : i <= j

\* func contains(s, substr string) bool
contains(s, substr) ==
    /\ Len(s) >= Len(substr)
    /\ \/ s = substr
       \/ /\ Len(s) > Len(substr)
          /\ \/ SubSeq(s, 1, Len(substr)) = substr
             \/ SubSeq(s, Len(s) - Len(substr) + 1, Len(s)) = substr
             \/ indexOfSubstring(s, substr) # 0 - 1

\* DefaultReliabilityConfig().Retry.RetriableErrors
DefaultRetriableErrors == <<"rate_limit", "timeout", "server_error", "network">>

\* DefaultReliabilityConfig().Retry, BaseDelay and MaxDelay in ticks
DefaultRetryConfig ==
    [MaxAttempts |-> 3, BaseDelay |-> 1, MaxDelay |-> 2, BackoffMultiplier |-> 2,
     JitterPercent |-> 25, RetriableErrors |-> DefaultRetriableErrors]

\* BackoffMultiplier is kept to whole numbers, for which math.Pow is exact
RetryConfigs ==
    [MaxAttempts : (0 - 1)..MaxMaxAttempts,
     BaseDelay : 0..MaxBaseDelay,
     MaxDelay : {2},
     BackoffMultiplier : {2},
     JitterPercent : {0, 25},
     RetriableErrors : {DefaultRetriableErrors, <<"timeout">>}]

\* errors the operation handed to Execute may return: a tagged retriable one
\* and a tagged non-retriable one (FaultInjector.ShouldFail), the
\* empty-choices error, and an upstream error classifyError passes unchanged
OperationErrors ==
    {"timeout: simulated timeout error",
     "quota: simulated quota exhaustion",
     "no response choices received",
     "rate_limit_exceeded"}

\* the value a successful operation returns
Response == "response"

\* ctx.Err() once the context is done
ContextErrors == {"context canceled", "context deadline exceeded"}

\* func (rm *RetryManager) isRetriable(err error) bool
isRetriable(config, err) ==
    \E i \in 1..Len(config.RetriableErrors) : contains(err, config.RetriableErrors[i])

\* math.Pow for a whole exponent
RECURSIVE Pow(_, _)
Pow(b, e) == IF e <= 0 THEN 1 ELSE b * Pow(b, e - 1)

\* a calculateDelay without the maximum delay cap
calculateDelayUncapped(config, n, r) ==
    LET exponentialDelay == config.BaseDelay * Pow(config.BackoffMultiplier, n - 1)
    IN IF config.JitterPercent > 0
       THEN (exponentialDelay * (10000 + (2 * r - 100) * config.JitterPercent))
                \div 10000
       ELSE exponentialDelay

\* func (rm *RetryManager) calculateDelay(attempt int) time.Duration, for the
\* draw r (in percent) of rm.random.Float64(); time.Duration(...) truncates
calculateDelay(config, n, r) ==
    LET raw == config.BaseDelay * Pow(config.BackoffMultiplier, n - 1)
        exponentialDelay == IF raw > config.MaxDelay THEN config.MaxDelay ELSE raw
    IN IF config.JitterPercent > 0
       THEN (exponentialDelay * (10000 + (2 * r - 100) * config.JitterPercent))
                \div 10000
       ELSE exponentialDelay

NoReturn == [result |-> "", err |-> "<running>"]
NoCancel == [pc |-> "none", woken |-> "none", calls |-> 0]

\* return result, err
Return(result, err) ==
    /\ pc' = "done"
    /\ rmRet' = [result |-> result, err |-> err]

\* a last-attempt test that gives up one attempt early
LastAttemptEarly(config, n) == n >= config.MaxAttempts - 1

\* attempt == rm.config.MaxAttempts
LastAttempt(config, n) == n = config.MaxAttempts

\* a break condition that forgets the retriable check
stopRetryingLastOnly(config, n, err) == LastAttempt(config, n)

\* if attempt == rm.config.MaxAttempts || !rm.isRetriable(err) { break }
stopRetrying(config, n, err) ==
    LastAttempt(config, n) \/ ~isRetriable(config, err)

\* a wait that does not listen to the context (a plain sleep)
WakeOnDoneNever(p, w) == w

\* case <-ctx.Done(): closing the channel wakes a goroutine parked in the
\* select, unless the timer has woken it already
WakeOnDone(p, w) == IF p = "parked" /\ w = "none" THEN "ctx" ELSE w

\* one turn of Execute's loop, up to the return or the select: the loop
\* condition, operation(), and the handling of its error
ExecuteAttemptWith(errors) ==
    /\ pc = "loop"
    /\ IF attempt > rmConfig.MaxAttempts
       THEN /\ Return("", lastErr)
            /\ UNCHANGED <<lastErr, timerAt, opLog, delayLog>>
       ELSE \E err \in {NoError} \cup errors :
              /\ opLog' = Append(opLog, err)
              /\ IF err = NoError
                 THEN /\ Return(Response, NoError)
                      /\ UNCHANGED <<lastErr, timerAt, delayLog>>
                 ELSE /\ lastErr' = err
                      /\ IF stopRetrying(rmConfig, attempt, err)
                         THEN /\ Return("", err)
                              /\ UNCHANGED <<timerAt, delayLog>>
                         ELSE \E r \in RandFloat64 :
                                LET delay == calculateDelay(rmConfig, attempt, r)
                                IN /\ timerAt' = now + delay
                                   /\ delayLog' = Append(delayLog, delay)
                                   /\ pc' = "select"
                                   /\ UNCHANGED rmRet
    /\ UNCHANGED <<rmConfig, attempt, ctxErr, woken, cancelObs>>

\* one turn of the loop on an operation that returns any of OperationErrors
ExecuteAttempt == ExecuteAttemptWith(OperationErrors)

\* the select statement is reached: a case that is ready is taken (any one
\* of them when both are), otherwise the goroutine parks on both channels
ExecuteSelect ==
    /\ pc = "select"
    /\ LET ready == {c \in {"ctx", "timer"} :
                        \/ c = "ctx" /\ ctxErr # NoError
                        \/ c = "timer" /\ now >= timerAt}
       IN IF ready = {}
          THEN /\ pc' = "parked"
               /\ UNCHANGED <<attempt, rmRet>>
          ELSE \E c \in ready :
                 IF c = "ctx"
                 THEN Return("", ctxErr) /\ UNCHANGED attempt
                 ELSE /\ attempt' = attempt + 1
                      /\ pc' = "loop"
                      /\ UNCHANGED rmRet
    /\ UNCHANGED <<rmConfig, lastErr, ctxErr, timerAt, woken, opLog, delayLog,
                   cancelObs>>

\* the parked goroutine runs again, in the case that woke it
ExecuteResume ==
    /\ pc = "parked"
    /\ woken # "none"
    /\ IF woken = "ctx"
       THEN Return("", ctxErr) /\ UNCHANGED attempt
       ELSE /\ attempt' = attempt + 1
            /\ pc' = "loop"
            /\ UNCHANGED rmRet
    /\ woken' = "none"
    /\ UNCHANGED <<rmConfig, lastErr, ctxErr, timerAt, opLog, delayLog, cancelObs>>

\* the timer of time.After(delay) fires and wakes the parked goroutine,
\* unless the context woke it first
TimerFire ==
    /\ pc = "parked"
    /\ woken = "none"
    /\ now >= timerAt
    /\ woken' = "timer"
    /\ UNCHANGED <<rmConfig, pc, attempt, lastErr, rmRet, ctxErr, timerAt, opLog,
                   delayLog, cancelObs>>

\* the caller's context is cancelled or times out: ctx.Done() is closed,
\* which wakes a goroutine parked on it unless the timer woke it first
ContextCancel ==
    /\ ctxErr = NoError
    /\ ctxErr' \in ContextErrors
    /\ woken' = WakeOnDone(pc, woken)
    /\ cancelObs' = [pc |-> pc, woken |-> woken, calls |-> Len(opLog)]
    /\ UNCHANGED <<rmConfig, pc, attempt, lastErr, rmRet, timerAt, opLog, delayLog>>

\* ------------------------------------------------------- operation layer

\* FaultInjector.ShouldFail: the error of each fault type it knows
FaultErrors ==
    {"timeout: simulated timeout error",
     "rate_limit: simulated rate limit error",
     "server_error: simulated server error",
     "network: simulated network error",
     "quota: simulated quota exhaustion"}

\* err.Error() of errors that client.CreateChatCompletion may return
APIErrors ==
    {"rate limit reached", "network timeout", "internal error",
     "connection refused", "rate_limit_exceeded", "invalid api key"}

\* func (ra *ResilientAgent) classifyError(err error) error
classifyError(err) ==
    CASE contains(err, "rate limit") -> "rate_limit: " \o err
      [] ~contains(err, "rate limit") /\ contains(err, "timeout") -> "timeout: " \o err
      [] /\ ~contains(err, "rate limit") /\ ~contains(err, "timeout")
         /\ (contains(err, "server error") \/ contains(err, "internal error"))
           -> "server_error: " \o err
      [] /\ ~contains(err, "rate limit") /\ ~contains(err, "timeout")
         /\ ~(contains(err, "server error") \/ contains(err, "internal error"))
         /\ (contains(err, "network") \/ contains(err, "connection"))
           -> "network: " \o err
      [] OTHER -> err

\* fmt.Errorf("no response choices received")
ErrNoChoices == "no response choices received"

\* every error performRequest can return, for the API errors above
LayerErrors == FaultErrors \cup {classifyError(e) : e \in APIErrors} \cup {ErrNoChoices}

\* ---------------------------------------------------------------- monitor

Counters ==
    {"totalRequests", "successfulRequests", "failedRequests", "totalRetries",
     "successfulRetries", "failedRetries", "circuitBreakerTrips",
     "rateLimitedRequests"}

\* NewMonitor(config)
NewMonitor ==
    [totalRequests |-> 0, successfulRequests |-> 0, failedRequests |-> 0,
     totalRetries |-> 0, successfulRetries |-> 0, failedRetries |-> 0,
     circuitBreakerTrips |-> 0, rateLimitedRequests |-> 0,
     responseTimes |-> <<>>,
     lastAPISuccess |-> ZeroTime, lastAPIFailure |-> ZeroTime]

\* s[len(s)-n:] when len(s) > n, else s
KeepRecent(s, n) ==
    IF Len(s) > n THEN SubSeq(s, Len(s) - n + 1, Len(s)) ELSE s

\* Monitor.RecordSuccess(duration) at time t
MonitorRecordSuccess(m, duration, t) ==
    [m EXCEPT !.totalRequests = @ + 1,
              !.successfulRequests = @ + 1,
              !.responseTimes = KeepRecent(Append(@, duration), MaxResponseTimes),
              !.lastAPISuccess = t]

\* Monitor.RecordFailure(duration) at time t
MonitorRecordFailure(m, duration, t) ==
    [m EXCEPT !.totalRequests = @ + 1,
              !.failedRequests = @ + 1,
              !.responseTimes = Append(@, duration),
              !.lastAPIFailure = t]

\* a RecordRateLimited that counts the rejection among the failed requests
MonitorRecordRateLimitedAsFailure(m) ==
    [m EXCEPT !.totalRequests = @ + 1,
              !.failedRequests = @ + 1,
              !.rateLimitedRequests = @ + 1]

\* Monitor.RecordRateLimited()
MonitorRecordRateLimited(m) ==
    [m EXCEPT !.totalRequests = @ + 1,
              !.rateLimitedRequests = @ + 1]

\* a Reset that forgets the rate-limited count
MonitorResetKeepsRateLimited(m) ==
    [f \in DOMAIN m |->
        IF f \in Counters \ {"rateLimitedRequests"} THEN 0
        ELSE IF f = "responseTimes" THEN <<>>
        ELSE m[f]]

\* Monitor.Reset()
MonitorReset(m) ==
    [f \in DOMAIN m |->
        IF f \in Counters THEN 0
        ELSE IF f = "responseTimes" THEN <<>>
        ELSE m[f]]

NoCalls == [success |-> 0, failure |-> 0, rateLimited |-> 0, reset |-> FALSE]

Recorded == monCalls.success + monCalls.failure + monCalls.rateLimited

\* the goroutines that call the monitor's Record* methods directly
Goroutines == {"g", "h"}

\* a goroutine that is not inside a Record* call: pc is where the call is,
\* kind and duration say which call it is, m is what it has read of the
\* monitor's fields
NoRecord == [pc |-> "idle", kind |-> "", duration |-> 0, m |-> NewMonitor]

\* a mutex that lets everyone in
MutexFreeAlways(holder, reading) == TRUE

\* m.mu.Lock() can return: nobody holds m.mu, for writing or for reading
\* (GetHealthStatus holds it for reading from start to end)
MutexFree(holder, reading) == holder = "free" /\ ~reading

CanLock == MutexFree(mu, health.pc # "idle")

\* the body of the Record* method of the given kind, run on the fields m
RecordBody(kind, m, duration, t) ==
    CASE kind = "RecordSuccess" -> MonitorRecordSuccess(m, duration, t)
      [] kind = "RecordFailure" -> MonitorRecordFailure(m, duration, t)
      [] kind = "RecordRateLimited" -> MonitorRecordRateLimited(m)

\* history: one more finished call of the given kind
Count(kind) ==
    monCalls' =
      CASE kind = "RecordSuccess" -> [monCalls EXCEPT !.success = @ + 1]
        [] kind = "RecordFailure" -> [monCalls EXCEPT !.failure = @ + 1]
        [] kind = "RecordRateLimited" -> [monCalls EXCEPT !.rateLimited = @ + 1]

InProgress == Cardinality({g \in Goroutines : rec[g].pc # "idle"})

\* goroutine g calls a Record* method: m.mu.Lock()
MonitorLock(g, kind, duration) ==
    /\ rec[g].pc = "idle"
    /\ Recorded + InProgress < MaxRecords
    /\ CanLock
    /\ mu' = g
    /\ rec' = [rec EXCEPT ![g] = [NoRecord EXCEPT !.pc = "locked", !.kind = kind,
                                                  !.duration = duration]]
    /\ UNCHANGED <<monitor, monCalls>>

\* the method reads the fields it is about to update
MonitorLoad(g) ==
    /\ rec[g].pc = "locked"
    /\ rec' = [rec EXCEPT ![g].pc = "loaded", ![g].m = monitor]
    /\ UNCHANGED <<monitor, monCalls, mu>>

\* the method writes the fields it updates, computed from what it read, and
\* returns: defer m.mu.Unlock()
MonitorStore(g) ==
    LET old == rec[g].m
        new == RecordBody(rec[g].kind, old, rec[g].duration, now)
    IN /\ rec[g].pc = "loaded"
       /\ monitor' = [f \in DOMAIN monitor |->
                        IF new[f] # old[f] THEN new[f] ELSE monitor[f]]
       /\ Count(rec[g].kind)
       /\ mu' = "free"
       /\ rec' = [rec EXCEPT ![g] = NoRecord]

\* Monitor.RecordSuccess from m.mu.Lock() to m.mu.Unlock(), as one step
RecordSuccessCall(duration) ==
    /\ CanLock
    /\ Recorded < MaxRecords
    /\ monitor' = MonitorRecordSuccess(monitor, duration, now)
    /\ Count("RecordSuccess")
    /\ UNCHANGED <<mu, rec>>

\* Monitor.RecordFailure from m.mu.Lock() to m.mu.Unlock(), as one step
RecordFailureCall(duration) ==
    /\ CanLock
    /\ Recorded < MaxRecords
    /\ monitor' = MonitorRecordFailure(monitor, duration, now)
    /\ Count("RecordFailure")
    /\ UNCHANGED <<mu, rec>>

\* Monitor.RecordRateLimited from m.mu.Lock() to m.mu.Unlock(), as one step
RecordRateLimitedCall ==
    /\ CanLock
    /\ Recorded < MaxRecords
    /\ monitor' = MonitorRecordRateLimited(monitor)
    /\ Count("RecordRateLimited")
    /\ UNCHANGED <<mu, rec>>

\* ResilientAgent.ResetMetrics(): Monitor.Reset from m.mu.Lock() to
\* m.mu.Unlock(), as one step
ResetMetrics ==
    /\ CanLock
    /\ monitor' = MonitorReset(monitor)
    /\ monCalls' = [NoCalls EXCEPT !.reset = TRUE]
    /\ UNCHANGED <<mu, rec>>

\* ------------------------------------------------ Monitor.GetHealthStatus

\* time.Since(m.lastAPISuccess) < time.Since(m.lastAPIFailure): the values the
\* comparison can have.  Two stamps of the same tick may lie either way
\* round; time.Since of a zero time.Time saturates, so two zero stamps compare
\* equal.
apiConnected(m) ==
    IF m.lastAPISuccess > m.lastAPIFailure THEN {TRUE}
    ELSE IF m.lastAPISuccess = m.lastAPIFailure /\ m.lastAPISuccess # ZeroTime
    THEN {TRUE, FALSE}
    ELSE {FALSE}

\* overall := apiConnected && !circuitOpen && !rateLimitExceeded;
\* return HealthStatus{...}
HealthStatus(api, circuitOpen, rateLimitExceeded, m, consecutiveFailures, availableTokens) ==
    [Overall |-> api /\ ~circuitOpen /\ ~rateLimitExceeded,
     APIConnection |-> api,
     CircuitBreakerOpen |-> circuitOpen,
     RateLimitExceeded |-> rateLimitExceeded,
     LastAPISuccess |-> m.lastAPISuccess,
     LastAPIFailure |-> m.lastAPIFailure,
     ConsecutiveFailures |-> consecutiveFailures,
     AvailableTokens |-> availableTokens]

\* no GetHealthStatus call has been made: pc is where the call is, circuitOpen
\* and consecutiveFailures are its locals, status is what the last call
\* returned, and sawState, sawTokens, sawRefilled are history: the breaker
\* state and the stored tokens that call read, and the tokens an Allow() made
\* at the moment of the read would have found
NoHealth ==
    [pc |-> "idle", circuitOpen |-> FALSE, consecutiveFailures |-> 0,
     returned |-> FALSE,
     status |-> HealthStatus(FALSE, FALSE, FALSE, NewMonitor, 0, 0),
     sawState |-> CircuitClosed, sawTokens |-> 0, sawRefilled |-> 0]

\* m.mu.RLock(); cb.mu.RLock(); circuitOpen := cb.state == CircuitOpen;
\* consecutiveFailures := cb.failureCount; cb.mu.RUnlock()
GetHealthStatusBreaker ==
    /\ health.pc = "idle"
    /\ health' = [health EXCEPT !.pc = "limiter",
                                !.circuitOpen = (state = CircuitOpen),
                                !.consecutiveFailures = failureCount,
                                !.sawState = state]

\* rl.mu.Lock(); availableTokens := int(rl.tokens);
\* rateLimitExceeded := rl.tokens < 1.0; rl.mu.Unlock(); ... return
GetHealthStatusLimiter ==
    /\ health.pc = "limiter"
    /\ \E api \in apiConnected(monitor) :
         health' = [health EXCEPT
                      !.pc = "idle",
                      !.returned = TRUE,
                      !.status = HealthStatus(api, health.circuitOpen,
                                              tokens < TokenOne, monitor,
                                              health.consecutiveFailures,
                                              tokens \div TokenOne),
                      !.sawTokens = tokens,
                      !.sawRefilled = Refill(rlConfig, tokens, lastRefill, now)]

\* --------------------------------------------------- ResilientAgent.Chat

\* the goroutines that call Chat
Callers == {"a", "b"}

\* a caller that has not called Chat yet
NoChat ==
    [pc |-> "idle", startTime |-> 0, attempt |-> 1, lastErr |-> NoError,
     timerAt |-> 0, duration |-> 0, ret |-> NoReturn, trace |-> <<>>]

\* history: one step of a Chat call and how it came out
Step(name, out) == [step |-> name, out |-> out]

Bool(b) == IF b THEN "true" ELSE "false"

\* caller p moves to location l, having taken step st
Goto(p, l, st) ==
    chat' = [chat EXCEPT ![p].pc = l, ![p].trace = Append(@, st)]

\* caller p returns result, err from Chat, having taken step st; the locals
\* of the call are gone
ChatReturn(p, result, err, st) ==
    chat' = [chat EXCEPT ![p] = [NoChat EXCEPT
                                   !.pc = "done",
                                   !.ret = [result |-> result, err |-> err],
                                   !.trace = Append(chat[p].trace, st)]]

\* fmt.Errorf("rate limit exceeded")
ErrRateLimit == "rate limit exceeded"

\* a circuit-open rejection reported as a rate-limit one
ErrCircuitOpenAsRateLimit == ErrRateLimit

\* fmt.Errorf("circuit breaker is open")
ErrCircuitOpen == "circuit breaker is open"

\* if !ra.rateLimiter.Allow() { ... }: where Chat goes on
AfterRateLimiter(ok) == IF ok THEN "cb" ELSE "rlRejected"

\* a Chat that goes on to the retry manager whatever the breaker said
AfterCircuitBreakerIgnored(ok) == "exec"

\* if !ra.circuitBreaker.Allow() { ... }: where Chat goes on
AfterCircuitBreaker(ok) == IF ok THEN "exec" ELSE "cbRejected"

\* startTime := time.Now(); if !ra.rateLimiter.Allow() { ... }
ChatRateLimiterAllow(p) ==
    /\ chat[p].pc \in {"idle", "done"}
    /\ Len(rlLog) < MaxChats
    /\ RateLimiterAllow
    /\ chat' = [chat EXCEPT ![p] =
                  [NoChat EXCEPT
                     !.pc = AfterRateLimiter(RateLimiterAllowResult),
                     !.startTime = now,
                     !.trace = <<Step("RateLimiter.Allow", Bool(RateLimiterAllowResult))>>]]

\* ra.monitor.RecordRateLimited(); return "", fmt.Errorf("rate limit exceeded")
ChatRecordRateLimited(p) ==
    /\ chat[p].pc = "rlRejected"
    /\ RecordRateLimitedCall
    /\ ChatReturn(p, "", ErrRateLimit,
                  Step("Monitor.RecordRateLimited", ""))

\* if !ra.circuitBreaker.Allow() { ... }
ChatCircuitBreakerAllow(p) ==
    /\ chat[p].pc = "cb"
    /\ CircuitBreakerAllow
    /\ Goto(p, AfterCircuitBreaker(cbObs'.ok),
            Step("CircuitBreaker.Allow", Bool(cbObs'.ok)))

\* a circuit-open rejection that returns without telling the monitor
ChatRejectOpenUnrecorded(p) ==
    /\ chat[p].pc = "cbRejected"
    /\ UNCHANGED monVars
    /\ ChatReturn(p, "", ErrCircuitOpen, Step("return", ""))

\* ra.monitor.RecordFailure(time.Since(startTime));
\* return "", fmt.Errorf("circuit breaker is open")
ChatRejectOpen(p) ==
    /\ chat[p].pc = "cbRejected"
    /\ RecordFailureCall(now - chat[p].startTime)
    /\ ChatReturn(p, "", ErrCircuitOpen,
                  Step("Monitor.RecordFailure", ""))

\* the errors performRequest returns in the runs of the whole agent: a
\* retriable and a non-retriable one
ChatErrors ==
    {"timeout: simulated timeout error", "quota: simulated quota exhaustion"}

\* a Chat that goes from Execute straight to the monitor, telling the breaker
\* nothing
ExecuteReturnNoBreaker(p, result, err, log) ==
    chat' = [chat EXCEPT ![p] = [NoChat EXCEPT
                                   !.pc = "monRecord",
                                   !.ret = [result |-> result, err |-> err],
                                   !.duration = now - chat[p].startTime,
                                   !.trace = chat[p].trace \o log]]

\* an Execute that wraps the error it gives up with
ExecuteReturnWrapped(p, result, err, log) ==
    chat' = [chat EXCEPT ![p] = [NoChat EXCEPT
                                   !.pc = "cbRecord",
                                   !.ret = [result |-> result,
                                            err |-> IF err = NoError THEN err
                                                    ELSE "max attempts exceeded: " \o err],
                                   !.duration = now - chat[p].startTime,
                                   !.trace = chat[p].trace \o log]]

\* Execute returns result, err to Chat, its own locals gone;
\* duration := time.Since(startTime)
ExecuteReturn(p, result, err, log) ==
    chat' = [chat EXCEPT ![p] = [NoChat EXCEPT
                                   !.pc = "cbRecord",
                                   !.ret = [result |-> result, err |-> err],
                                   !.duration = now - chat[p].startTime,
                                   !.trace = chat[p].trace \o log]]

\* one turn of the loop of Execute inside Chat: the loop condition, the
\* operation (performRequest) and the handling of its error
ChatAttemptWith(p, errors) ==
    LET c == chat[p]
    IN /\ c.pc = "exec"
       /\ IF c.attempt > rmConfig.MaxAttempts
          THEN ExecuteReturn(p, "", c.lastErr, <<>>)
          ELSE \E err \in {NoError} \cup errors :
                 IF err = NoError
                 THEN ExecuteReturn(p, Response, NoError, <<Step("operation", err)>>)
                 ELSE IF stopRetrying(rmConfig, c.attempt, err)
                 THEN ExecuteReturn(p, "", err, <<Step("operation", err)>>)
                 ELSE \E r \in RandFloat64 :
                        chat' = [chat EXCEPT
                                   ![p].pc = "delay",
                                   ![p].lastErr = err,
                                   ![p].timerAt =
                                       now + calculateDelay(rmConfig, c.attempt, r),
                                   ![p].trace = Append(@, Step("operation", err))]

\* one turn of the loop on a performRequest that returns any of ChatErrors
ChatAttempt(p) == ChatAttemptWith(p, ChatErrors)

\* case <-time.After(delay): continue with the next attempt
ChatTimer(p) ==
    /\ chat[p].pc = "delay"
    /\ now >= chat[p].timerAt
    /\ chat' = [chat EXCEPT ![p].pc = "exec", ![p].attempt = @ + 1]

\* case <-ctx.Done(): return "", ctx.Err()
ChatCancel(p) ==
    /\ chat[p].pc = "delay"
    /\ \E err \in ContextErrors :
         ExecuteReturn(p, "", err, <<Step("ctx.Done", err)>>)

\* if err != nil { ra.circuitBreaker.RecordFailure() ...
ChatCircuitBreakerRecordFailure(p) ==
    /\ chat[p].pc = "cbRecord"
    /\ chat[p].ret.err # NoError
    /\ CircuitBreakerRecordFailure
    /\ Goto(p, "monRecord", Step("CircuitBreaker.RecordFailure", ""))

\* ra.circuitBreaker.RecordSuccess()
ChatCircuitBreakerRecordSuccess(p) ==
    /\ chat[p].pc = "cbRecord"
    /\ chat[p].ret.err = NoError
    /\ CircuitBreakerRecordSuccess
    /\ Goto(p, "monRecord", Step("CircuitBreaker.RecordSuccess", ""))

\* ... ra.monitor.RecordFailure(duration); return "", err }
ChatMonitorRecordFailure(p) ==
    /\ chat[p].pc = "monRecord"
    /\ chat[p].ret.err # NoError
    /\ RecordFailureCall(chat[p].duration)
    /\ ChatReturn(p, "", chat[p].ret.err, Step("Monitor.RecordFailure", ""))

\* ra.monitor.RecordSuccess(duration); return response, nil
ChatMonitorRecordSuccess(p) ==
    /\ chat[p].pc = "monRecord"
    /\ chat[p].ret.err = NoError
    /\ RecordSuccessCall(chat[p].duration)
    /\ ChatReturn(p, chat[p].ret.result, NoError, Step("Monitor.RecordSuccess", ""))

\* --------------------------------------------------------- fault injector

\* the fault types ShouldFail knows
KnownFaults == {"timeout", "ratelimit", "server_error", "network", "quota"}

\* the labels InjectFault is called with: two of the known ones, and the
\* category tag rate_limit, which is none of them
InjectedFaults == {"timeout", "network", "rate_limit"}

\* switch faultType { case ...: return fmt.Errorf(...) }
FaultError(faultType) ==
    CASE faultType = "timeout" -> "timeout: simulated timeout error"
      [] faultType = "ratelimit" -> "rate_limit: simulated rate limit error"
      [] faultType = "server_error" -> "server_error: simulated server error"
      [] faultType = "network" -> "network: simulated network error"
      [] faultType = "quota" -> "quota: simulated quota exhaustion"

\* NewFaultInjector(): an empty map
NewFaultInjector == [faultType \in {} |-> 0]

\* fi.activeFailures[faultType] = time.Now().Add(duration)
Put(af, faultType, expiry) ==
    [x \in DOMAIN af \cup {faultType} |-> IF x = faultType THEN expiry ELSE af[x]]

\* the first loop of ShouldFail at time t: the errors it can return, one for
\* each entry that is active and of a known type (the map is ranged over in
\* no particular order)
ActiveErrors(af, t) ==
    {FaultError(x) : x \in {y \in DOMAIN af : t < af[y] /\ y \in KnownFaults}}

\* the second loop of ShouldFail at time t: delete the entries with
\* now.After(expiry)
CleanExpired(af, t) == [x \in {y \in DOMAIN af : ~(af[y] < t)} |-> af[x]]

NoShouldFail == [called |-> FALSE, at |-> 0, err |-> NoError,
                 before |-> NewFaultInjector, after |-> NewFaultInjector]

\* func (fi *FaultInjector) InjectFault(faultType string, duration time.Duration)
InjectFault(faultType, duration) ==
    /\ activeFailures' = Put(activeFailures, faultType, now + duration)
    /\ UNCHANGED fiObs

\* func (fi *FaultInjector) ClearFaults()
ClearFaults ==
    /\ activeFailures' = NewFaultInjector
    /\ UNCHANGED fiObs

\* func (fi *FaultInjector) ShouldFail() error
ShouldFail ==
    LET errs == ActiveErrors(activeFailures, now)
    IN \E err \in IF errs = {} THEN {NoError} ELSE errs :
         /\ activeFailures' = IF errs = {} THEN CleanExpired(activeFailures, now)
                              ELSE activeFailures
         /\ fiObs' = [called |-> TRUE, at |-> now, err |-> err,
                      before |-> activeFailures, after |-> activeFailures']

\* ------------------------------------------------------------- GetMetrics

\* if len(m.responseTimes) >= 20
P95MinSamples == 20

\* one pass of the inner loop: for j := 0; j < len(sorted)-i-1; j++, swapping
\* sorted[j] and sorted[j+1] when out of order; j and last are 1-based here
RECURSIVE BubblePass(_, _, _)
BubblePass(sorted, j, last) ==
    IF j >= last THEN sorted
    ELSE IF sorted[j] > sorted[j + 1]
         THEN BubblePass([sorted EXCEPT ![j] = sorted[j + 1], ![j + 1] = sorted[j]], j + 1, last)
         ELSE BubblePass(sorted, j + 1, last)

\* the outer loop: for i := 0; i < len(sorted)-1; i++
RECURSIVE BubbleSort(_, _)
BubbleSort(sorted, i) ==
    IF i >= Len(sorted) - 1 THEN sorted
    ELSE BubbleSort(BubblePass(sorted, 1, Len(sorted) - i), i + 1)

\* p95Index := int(float64(len(sorted)) * 0.95): the product is within half
\* an ulp of n*95/100 and its truncation equals the integer quotient
p95Index(n) == (n * 95) \div 100

\* metrics.P95ResponseTime: sorted[p95Index] of a sorted copy (0-based in the
\* code) when there are at least 20 samples, the zero Duration otherwise
P95ResponseTime(responseTimes) ==
    IF Len(responseTimes) >= P95MinSamples
    THEN BubbleSort(responseTimes, 0)[p95Index(Len(responseTimes)) + 1]
    ELSE 0

NoMetrics == [called |-> FALSE, P95ResponseTime |-> 0, samples |-> <<>>]

\* func (m *Monitor) GetMetrics(...) Metrics, the latency percentile: the
\* monitor is read under RLock and the sort works on a copy
GetMetrics ==
    /\ metrics' = [called |-> TRUE,
                   P95ResponseTime |-> P95ResponseTime(monitor.responseTimes),
                   samples |-> monitor.responseTimes]
    /\ UNCHANGED monVars

\* ---------------------------------------------------------- chatbot Memory

\* the roles AddMessage is called with (ProcessMessage adds the user's
\* message and the reply) and the contents of the model
Roles == {"user", "assistant"}
Contents == {"x", "y"}
Prompts == {"p", "q"}

\* openai.ChatCompletionMessage{Role: role, Content: content}
ChatCompletionMessage(role, content) == [Role |-> role, Content |-> content]

\* func NewMemory(maxHistory int) *Memory
NewMemory(maxHistory) == [messages |-> <<>>, maxHistory |-> maxHistory]

\* m.messages[len(m.messages)-m.maxHistory:]
Recent(messages, n) == SubSeq(messages, Len(messages) - n + 1, Len(messages))

\* the trim of AddMessage, keeping one message too many
TrimKeepsOneMore(messages, maxHistory) ==
    IF Len(messages) > maxHistory + 1
    THEN <<messages[1]>> \o Recent(messages, maxHistory + 1)
    ELSE messages

\* if len(m.messages) > m.maxHistory+1: the first message and the last
\* maxHistory ones
Trim(messages, maxHistory) ==
    IF Len(messages) > maxHistory + 1
    THEN <<messages[1]>> \o Recent(messages, maxHistory)
    ELSE messages

NoMemoryCalls == [systemFirst |-> FALSE, added |-> <<>>, prompts |-> <<>>]

\* func (m *Memory) AddMessage(role, content string)
AddMessage(role, content) ==
    LET message == ChatCompletionMessage(role, content)
    IN /\ Len(memObs.added) < MaxAdds
       /\ memory' = [memory EXCEPT
             !.messages = Trim(Append(@, message), memory.maxHistory)]
       /\ memObs' = [memObs EXCEPT !.added = Append(@, message)]

\* func (m *Memory) SetSystemMessage(content string)
SetSystemMessage(content) ==
    LET systemMsg == ChatCompletionMessage("system", content)
    IN /\ memory' = [memory EXCEPT
             !.messages = IF Len(@) > 0 /\ @[1].Role = "system"
                          THEN [@ EXCEPT ![1] = systemMsg]
                          ELSE <<systemMsg>> \o @]
       /\ memObs' = [memObs EXCEPT
             !.systemFirst = IF memObs.prompts = <<>> THEN memObs.added = <<>> ELSE @,
             !.prompts = <<content>>]

\* ------------------------------------------- concurrent RateLimiter.Allow

\* a goroutine that is not inside Allow: pc is where the call is, t is the
\* time.Now() it read, rl is what it has read of the limiter's fields
NoAllow == [pc |-> "idle", t |-> 0, rl |-> NewRateLimiter(DefaultRateLimitConfig, 0)]

\* history: the calls that read time t; k is the number of tokens the first
\* of them had after its refill, granted how many of them returned true
NoAllowObs == [t |-> 0 - 1, k |-> 0, granted |-> 0]

\* a mutex that lets everyone in
LimiterMutexFreeAlways(holder) == TRUE

\* rl.mu.Lock() can return
LimiterMutexFree(holder) == holder = "free"

AllowsInProgress == Cardinality({g \in Goroutines : allow[g].pc # "idle"})

\* rl.mu.Lock()
AllowLock(g) ==
    /\ allow[g].pc = "idle"
    /\ Len(rlLog) + AllowsInProgress < MaxCalls
    /\ LimiterMutexFree(rlMu)
    /\ rlMu' = g
    /\ allow' = [allow EXCEPT ![g].pc = "locked"]
    /\ UNCHANGED <<rlVars, allowObs>>

\* now := time.Now(), and the call reads the fields it is about to update
AllowLoad(g) ==
    /\ allow[g].pc = "locked"
    /\ allow' = [allow EXCEPT ![g] =
          [pc |-> "loaded", t |-> now,
           rl |-> [config |-> rlConfig, tokens |-> tokens,
                   lastRefill |-> lastRefill, requestTimes |-> requestTimes]]]
    /\ UNCHANGED <<rlVars, rlMu, allowObs>>

\* the call refills, takes a token if there is one, writes the fields back
\* and returns: defer rl.mu.Unlock()
AllowStore(g) ==
    LET t == allow[g].t
        old == allow[g].rl
        refilled == Refill(rlConfig, old.tokens, old.lastRefill, t)
        ok == HasToken(refilled)
    IN /\ allow[g].pc = "loaded"
       /\ lastRefill' = t
       /\ tokens' = IF ok THEN refilled - TokenOne ELSE refilled
       /\ requestTimes' =
            IF ok THEN CleanRequestTimes(Append(old.requestTimes, t), t - TicksPerMinute)
            ELSE requestTimes
       /\ rlLog' = Append(rlLog, [at |-> t, ok |-> ok])
       /\ allowObs' =
            IF allowObs.t = t
            THEN [allowObs EXCEPT !.granted = @ + (IF ok THEN 1 ELSE 0)]
            ELSE [t |-> t, k |-> refilled, granted |-> IF ok THEN 1 ELSE 0]
       /\ rlMu' = "free"
       /\ allow' = [allow EXCEPT ![g] = NoAllow]
       /\ UNCHANGED rlConfig

\* ------------------------------------------------------ the agent's mutexes

\* Monitor.mu, CircuitBreaker.mu, RateLimiter.mu, FaultInjector.mu
Mutexes == {"m.mu", "cb.mu", "rl.mu", "fi.mu"}

\* the goroutines that call the agent
Lockers == {"g", "h", "k"}

FreeMutex == [writer |-> "none", readers |-> {}, pending |-> {}]

\* mx.Lock(); defer mx.Unlock() around a body that takes no other lock
Locked(mx) == <<<<"Lock", mx>>, <<"Unlock", mx>>>>

\* mx.RLock(); defer mx.RUnlock() around a body that takes no other lock
RLocked(mx) == <<<<"RLock", mx>>, <<"RUnlock", mx>>>>

\* Execute: each attempt runs performRequest, which calls ShouldFail
RECURSIVE ExecuteLocks(_)
ExecuteLocks(attempts) ==
    IF attempts = 0 THEN <<>> ELSE RLocked("fi.mu") \o ExecuteLocks(attempts - 1)

\* Chat when the rate limiter rejects: Allow, then Monitor.RecordRateLimited
ChatRateLimitedLocks == Locked("rl.mu") \o Locked("m.mu")

\* Chat when the breaker rejects: both Allow calls, then Monitor.RecordFailure
ChatRejectedLocks == Locked("rl.mu") \o RLocked("cb.mu") \o Locked("m.mu")

\* a Chat that reports to the monitor while it still holds the breaker's lock
ChatExecutedLocksNested(attempts) ==
    Locked("rl.mu") \o RLocked("cb.mu") \o ExecuteLocks(attempts)
       \o <<<<"Lock", "cb.mu">>>> \o Locked("m.mu") \o <<<<"Unlock", "cb.mu">>>>

\* Chat when the operation ran: both Allow calls, Execute, then the breaker's
\* and the monitor's RecordFailure or RecordSuccess, one after the other
ChatExecutedLocks(attempts) ==
    Locked("rl.mu") \o RLocked("cb.mu") \o ExecuteLocks(attempts)
       \o Locked("cb.mu") \o Locked("m.mu")

\* Monitor.GetMetrics: m.mu is read-held to the end, cb.GetState() and the
\* read of rl.requestTimes are inside
GetMetricsLocks ==
    <<<<"RLock", "m.mu">>>> \o RLocked("cb.mu") \o Locked("rl.mu")
       \o <<<<"RUnlock", "m.mu">>>>

\* Monitor.GetHealthStatus: m.mu is read-held to the end, the reads of the
\* breaker and of the limiter are inside
GetHealthStatusLocks ==
    <<<<"RLock", "m.mu">>>> \o RLocked("cb.mu") \o Locked("rl.mu")
       \o <<<<"RUnlock", "m.mu">>>>

\* the calls on the agent, as the lock operations they make in order
AgentCalls ==
    [Chat |-> {ChatRateLimitedLocks, ChatRejectedLocks,
               ChatExecutedLocks(1), ChatExecutedLocks(2)},
     GetMetrics |-> {GetMetricsLocks},
     GetHealthStatus |-> {GetHealthStatusLocks},
     ResetCircuitBreakers |-> {Locked("cb.mu")},
     ResetMetrics |-> {Locked("m.mu")},
     InjectFault |-> {Locked("fi.mu")},
     ClearFaults |-> {Locked("fi.mu")}]

\* the mutexes g holds
Held(g) == {mx \in Mutexes : locks[mx].writer = g \/ g \in locks[mx].readers}

\* the next lock operation of g
NextOp(g) == Head(lk[g])

\* g is at an operation of the given kind
At(g, kind) == lk[g] # <<>> /\ NextOp(g)[1] = kind

\* a goroutine enters one of the calls
LockCall(g) ==
    /\ lk[g] = <<>>
    /\ \E name \in DOMAIN AgentCalls : \E ops \in AgentCalls[name] :
          lk' = [lk EXCEPT ![g] = ops]
    /\ UNCHANGED locks

\* mx.Lock() is called: from now on no new reader gets in
LockAnnounce(g) ==
    LET mx == NextOp(g)[2]
    IN /\ At(g, "Lock")
       /\ g \notin locks[mx].pending
       /\ locks' = [locks EXCEPT ![mx].pending = @ \cup {g}]
       /\ UNCHANGED lk

\* mx.Lock() returns: no writer and no reader holds mx
LockAcquire(g) ==
    LET mx == NextOp(g)[2]
    IN /\ At(g, "Lock")
       /\ g \in locks[mx].pending
       /\ locks[mx].writer = "none"
       /\ locks[mx].readers = {}
       /\ locks' = [locks EXCEPT ![mx].writer = g, ![mx].pending = @ \ {g}]
       /\ lk' = [lk EXCEPT ![g] = Tail(@)]

\* mx.RLock() returns: no writer holds mx or waits for it
RLockAcquire(g) ==
    LET mx == NextOp(g)[2]
    IN /\ At(g, "RLock")
       /\ locks[mx].writer = "none"
       /\ locks[mx].pending = {}
       /\ locks' = [locks EXCEPT ![mx].readers = @ \cup {g}]
       /\ lk' = [lk EXCEPT ![g] = Tail(@)]

\* mx.Unlock()
Unlock(g) ==
    LET mx == NextOp(g)[2]
    IN /\ At(g, "Unlock")
       /\ locks' = [locks EXCEPT ![mx].writer = "none"]
       /\ lk' = [lk EXCEPT ![g] = Tail(@)]

\* mx.RUnlock()
RUnlock(g) ==
    LET mx == NextOp(g)[2]
    IN /\ At(g, "RUnlock")
       /\ locks' = [locks EXCEPT ![mx].readers = @ \ {g}]
       /\ lk' = [lk EXCEPT ![g] = Tail(@)]

\* ------------------------------------------ concurrent FaultInjector calls

\* a goroutine that is not inside a FaultInjector call: pc is where the call
\* is, op which call it is, t the time.Now() that ShouldFail read
NoFaultCall == [pc |-> "idle", op |-> "", faultType |-> "", expiry |-> 0, t |-> 0]

\* what happens when one goroutine writes the map while another reads or
\* writes it: the accesses go through, or the runtime stops the process
\* (fatal error: concurrent map read and map write)
RaceOutcomes == {"unnoticed", "fatal"}

\* g is between taking fi.mu and its access to fi.activeFailures
Accessing(g) == fiCall[g].pc \in {"locked", "scan", "clean"}

\* the entries the cleaning loop of a ShouldFail that read time t deletes
Expired(af, t) == {x \in DOMAIN af : af[x] < t}

\* the access g is about to make writes the map: the assignment of
\* InjectFault, the new map of ClearFaults, a delete of ShouldFail
Writing(g) ==
    \/ fiCall[g].pc = "locked"
    \/ fiCall[g].pc = "clean" /\ Expired(activeFailures, fiCall[g].t) # {}

\* g's access runs while another goroutine's does, and one of them writes
Races(g) ==
    \E h \in Goroutines \ {g} :
       Accessing(g) /\ Accessing(h) /\ (Writing(g) \/ Writing(h))

\* the step of g's access: as written, or stopped by the runtime
Access(g, step) ==
    \E outcome \in IF Races(g) THEN RaceOutcomes ELSE {"unnoticed"} :
       IF outcome = "fatal"
       THEN fiFatal' = TRUE /\ UNCHANGED <<activeFailures, fiObs, fiMu, fiCall>>
       ELSE step /\ UNCHANGED fiFatal

\* InjectFault / ClearFaults: fi.mu.Lock()
FaultLock(g, op, faultType, duration) ==
    /\ ~fiFatal
    /\ fiCall[g].pc = "idle"
    /\ fiMu.writer = "none" /\ fiMu.readers = {}
    /\ fiMu' = [fiMu EXCEPT !.writer = g]
    /\ fiCall' = [fiCall EXCEPT ![g] =
          [NoFaultCall EXCEPT !.pc = "locked", !.op = op, !.faultType = faultType,
                              !.expiry = now + duration]]
    /\ UNCHANGED <<activeFailures, fiObs, fiFatal>>

\* InjectFault / ClearFaults: the write of the map, and defer fi.mu.Unlock()
FaultWrite(g) ==
    /\ ~fiFatal
    /\ fiCall[g].pc = "locked"
    /\ Access(g,
         /\ activeFailures' =
              IF fiCall[g].op = "InjectFault"
              THEN Put(activeFailures, fiCall[g].faultType, fiCall[g].expiry)
              ELSE NewFaultInjector
         /\ fiMu' = [fiMu EXCEPT !.writer = "none"]
         /\ fiCall' = [fiCall EXCEPT ![g] = NoFaultCall]
         /\ UNCHANGED fiObs)

\* ShouldFail: fi.mu.RLock(); now := time.Now()
ShouldFailRLock(g) ==
    /\ ~fiFatal
    /\ fiCall[g].pc = "idle"
    /\ fiMu.writer = "none"
    /\ fiMu' = [fiMu EXCEPT !.readers = @ \cup {g}]
    /\ fiCall' = [fiCall EXCEPT ![g] =
          [NoFaultCall EXCEPT !.pc = "scan", !.op = "ShouldFail", !.t = now]]
    /\ UNCHANGED <<activeFailures, fiObs, fiFatal>>

\* ShouldFail: the first loop; it returns the error of an active known fault
\* (defer fi.mu.RUnlock()) or goes on to the cleaning loop
ShouldFailScan(g) ==
    LET errs == ActiveErrors(activeFailures, fiCall[g].t)
    IN /\ ~fiFatal
       /\ fiCall[g].pc = "scan"
       /\ Access(g,
            /\ IF errs = {}
               THEN /\ fiCall' = [fiCall EXCEPT ![g].pc = "clean"]
                    /\ UNCHANGED fiMu
               ELSE /\ fiCall' = [fiCall EXCEPT ![g] = NoFaultCall]
                    /\ fiMu' = [fiMu EXCEPT !.readers = @ \ {g}]
            /\ UNCHANGED <<activeFailures, fiObs>>)

\* ShouldFail: the cleaning loop deletes the expired entries, under the read
\* lock; return nil and defer fi.mu.RUnlock()
ShouldFailClean(g) ==
    /\ ~fiFatal
    /\ fiCall[g].pc = "clean"
    /\ Access(g,
         /\ activeFailures' = CleanExpired(activeFailures, fiCall[g].t)
         /\ fiMu' = [fiMu EXCEPT !.readers = @ \ {g}]
         /\ fiCall' = [fiCall EXCEPT ![g] = NoFaultCall]
         /\ UNCHANGED fiObs)

\* ------------------------------------------------------------------ clock

\* the wall clock advances, up to limit
TickTo(limit) ==
    /\ now < limit
    /\ now' = now + 1
    /\ cooling' = (cooling /\ now' - lastFailureTime < cbConfig.RecoveryTimeout)
    /\ UNCHANGED <<rlVars, cbVars, rmVars, monVars, chatVars, fiVars, gmVars, memVars, rlcVars, lkVars, frVars>>

Tick == TickTo(MaxTime)

ChatTick == TickTo(MaxChatTime)

\* --------------------------------------------------------- specifications

InitRateLimiter(configs) ==
    /\ \E config \in configs :
         LET rl == NewRateLimiter(config, 0)
         IN /\ rlConfig = rl.config
            /\ tokens = rl.tokens
            /\ lastRefill = rl.lastRefill
            /\ requestTimes = rl.requestTimes
    /\ rlLog = <<>>

InitExecute(configs) ==
    /\ rmConfig \in configs
    /\ pc = "loop"
    /\ attempt = 1
    /\ lastErr = NoError
    /\ rmRet = NoReturn
    /\ ctxErr = NoError
    /\ timerAt = 0
    /\ woken = "none"
    /\ opLog = <<>>
    /\ delayLog = <<>>
    /\ cancelObs = NoCancel

InitCircuitBreaker(configs) ==
    /\ \E config \in configs :
         LET cb == NewCircuitBreaker(config)
         IN /\ cbConfig = config
            /\ state = cb.state
            /\ failureCount = cb.failureCount
            /\ lastFailureTime = cb.lastFailureTime
            /\ successCount = cb.successCount
    /\ inflight = 0
    /\ cbObs = NoObs
    /\ failRun = 0
    /\ cooling = FALSE
    /\ hoSuccesses = 0

InitMonitor ==
    /\ monitor = NewMonitor
    /\ monCalls = NoCalls
    /\ mu = "free"
    /\ rec = [g \in Goroutines |-> NoRecord]

InitChat ==
    /\ chat = [p \in Callers |-> NoChat]
    /\ health = NoHealth

InitFaultInjector ==
    /\ activeFailures = NewFaultInjector
    /\ fiObs = NoShouldFail

InitGetMetrics == metrics = NoMetrics

\* nobody holds rl.mu and no goroutine is inside Allow
InitAllow ==
    /\ rlMu = "free"
    /\ allow = [g \in Goroutines |-> NoAllow]
    /\ allowObs = NoAllowObs

\* every mutex is free and no goroutine is inside a call
InitLocks ==
    /\ locks = [mx \in Mutexes |-> FreeMutex]
    /\ lk = [g \in Lockers |-> <<>>]

\* nobody holds fi.mu and no goroutine is inside a FaultInjector call
InitFaultCalls ==
    /\ fiMu = [writer |-> "none", readers |-> {}]
    /\ fiCall = [g \in Goroutines |-> NoFaultCall]
    /\ fiFatal = FALSE

\* NewMemory(maxHistory), with no call made yet
InitMemory(limits) ==
    /\ \E maxHistory \in limits : memory = NewMemory(maxHistory)
    /\ memObs = NoMemoryCalls

\* the rate limiter on its own, under any configuration
InitRL ==
    /\ now = 0
    /\ InitRateLimiter(RateLimitConfigs)
    /\ InitCircuitBreaker({DefaultCircuitBreakerConfig})
    /\ InitExecute({DefaultRetryConfig})
    /\ InitMonitor
    /\ InitChat
    /\ InitFaultInjector
    /\ InitGetMetrics
    /\ InitMemory({10})
    /\ InitAllow
    /\ InitLocks
    /\ InitFaultCalls

NextRL ==
    \/ RateLimiterAllow /\ UNCHANGED <<cbVars, cooling, rmVars, monVars, chatVars, fiVars, gmVars, memVars, rlcVars, lkVars, frVars>>
    \/ Tick

SpecRL == InitRL /\ [][NextRL]_vars

\* the circuit breaker as concurrent Chat calls drive it, under any configuration
InitCB ==
    /\ now = 0
    /\ InitRateLimiter({DefaultRateLimitConfig})
    /\ InitCircuitBreaker(CircuitBreakerConfigs)
    /\ InitExecute({DefaultRetryConfig})
    /\ InitMonitor
    /\ InitChat
    /\ InitFaultInjector
    /\ InitGetMetrics
    /\ InitMemory({10})
    /\ InitAllow
    /\ InitLocks
    /\ InitFaultCalls

NextCB ==
    \/ CircuitBreakerAllow /\ UNCHANGED <<now, rlVars, rmVars, monVars, chatVars, fiVars, gmVars, memVars, rlcVars, lkVars, frVars>>
    \/ CircuitBreakerRecordFailure /\ UNCHANGED <<now, rlVars, rmVars, monVars, chatVars, fiVars, gmVars, memVars, rlcVars, lkVars, frVars>>
    \/ CircuitBreakerRecordSuccess /\ UNCHANGED <<now, rlVars, rmVars, monVars, chatVars, fiVars, gmVars, memVars, rlcVars, lkVars, frVars>>
    \/ CircuitBreakerReset /\ UNCHANGED <<now, rlVars, rmVars, monVars, chatVars, fiVars, gmVars, memVars, rlcVars, lkVars, frVars>>
    \/ Tick

SpecCB == InitCB /\ [][NextCB]_vars

\* one RetryManager.Execute call on an arbitrary operation, under any
\* configuration, with a context the caller may cancel at any moment
InitRM ==
    /\ now = 0
    /\ InitRateLimiter({DefaultRateLimitConfig})
    /\ InitCircuitBreaker({DefaultCircuitBreakerConfig})
    /\ InitExecute(RetryConfigs)
    /\ InitMonitor
    /\ InitChat
    /\ InitFaultInjector
    /\ InitGetMetrics
    /\ InitMemory({10})
    /\ InitAllow
    /\ InitLocks
    /\ InitFaultCalls

NextRM ==
    \/ ExecuteAttempt /\ UNCHANGED <<now, rlVars, cbVars, cooling, monVars, chatVars, fiVars, gmVars, memVars, rlcVars, lkVars, frVars>>
    \/ ExecuteSelect /\ UNCHANGED <<now, rlVars, cbVars, cooling, monVars, chatVars, fiVars, gmVars, memVars, rlcVars, lkVars, frVars>>
    \/ ExecuteResume /\ UNCHANGED <<now, rlVars, cbVars, cooling, monVars, chatVars, fiVars, gmVars, memVars, rlcVars, lkVars, frVars>>
    \/ TimerFire /\ UNCHANGED <<now, rlVars, cbVars, cooling, monVars, chatVars, fiVars, gmVars, memVars, rlcVars, lkVars, frVars>>
    \/ ContextCancel /\ UNCHANGED <<now, rlVars, cbVars, cooling, monVars, chatVars, fiVars, gmVars, memVars, rlcVars, lkVars, frVars>>
    \/ Tick

SpecRM == InitRM /\ [][NextRM]_vars

\* the monitor on its own: goroutines record outcomes and reset the metrics
\* in any order
InitMon ==
    /\ now = 0
    /\ InitRateLimiter({DefaultRateLimitConfig})
    /\ InitCircuitBreaker({DefaultCircuitBreakerConfig})
    /\ InitExecute({DefaultRetryConfig})
    /\ InitMonitor
    /\ InitChat
    /\ InitFaultInjector
    /\ InitGetMetrics
    /\ InitMemory({10})
    /\ InitAllow
    /\ InitLocks
    /\ InitFaultCalls

RecordKinds == {"RecordSuccess", "RecordFailure", "RecordRateLimited"}

NextMon ==
    \/ \E g \in Goroutines, kind \in RecordKinds, d \in 0..MaxDuration :
          MonitorLock(g, kind, d) /\ UNCHANGED <<now, rlVars, cbVars, cooling, rmVars, chatVars, fiVars, gmVars, memVars, rlcVars, lkVars, frVars>>
    \/ \E g \in Goroutines : MonitorLoad(g) /\ UNCHANGED <<now, rlVars, cbVars, cooling, rmVars, chatVars, fiVars, gmVars, memVars, rlcVars, lkVars, frVars>>
    \/ \E g \in Goroutines : MonitorStore(g) /\ UNCHANGED <<now, rlVars, cbVars, cooling, rmVars, chatVars, fiVars, gmVars, memVars, rlcVars, lkVars, frVars>>
    \/ ResetMetrics /\ UNCHANGED <<now, rlVars, cbVars, cooling, rmVars, chatVars, fiVars, gmVars, memVars, rlcVars, lkVars, frVars>>
    \/ ChatTick

SpecMon == InitMon /\ [][NextMon]_vars

\* the configurations the whole agent is run under
ChatRateLimitConfigs == [RequestsPerMinute : {TicksPerMinute}, BurstSize : {1}]

ChatCircuitBreakerConfigs ==
    [FailureThreshold : {1}, RecoveryTimeout : {1}, TestRequestRate : {10},
     ConsecutiveSuccesses : {1}]

ChatRetryConfigs ==
    [MaxAttempts : {MaxMaxAttempts - 1}, BaseDelay : {MaxBaseDelay}, MaxDelay : {2},
     BackoffMultiplier : {2}, JitterPercent : {0},
     RetriableErrors : {DefaultRetriableErrors}]

Init ==
    /\ now = 0
    /\ InitRateLimiter(ChatRateLimitConfigs)
    /\ InitCircuitBreaker(ChatCircuitBreakerConfigs)
    /\ InitExecute(ChatRetryConfigs)
    /\ InitMonitor
    /\ InitChat
    /\ InitFaultInjector
    /\ InitGetMetrics
    /\ InitMemory({10})
    /\ InitAllow
    /\ InitLocks
    /\ InitFaultCalls

\* a step of the Chat call of one of the callers in P
ChatNextWith(P, errors) ==
    \/ \E p \in P : ChatRateLimiterAllow(p) /\ UNCHANGED <<cbVars, cooling, rmVars, monVars, health, fiVars, gmVars, memVars, rlcVars, lkVars, frVars>>
    \/ \E p \in P : ChatRecordRateLimited(p) /\ UNCHANGED <<now, rlVars, cbVars, cooling, rmVars, health, fiVars, gmVars, memVars, rlcVars, lkVars, frVars>>
    \/ \E p \in P : ChatCircuitBreakerAllow(p) /\ UNCHANGED <<now, rlVars, rmVars, monVars, health, fiVars, gmVars, memVars, rlcVars, lkVars, frVars>>
    \/ \E p \in P : ChatRejectOpen(p) /\ UNCHANGED <<now, rlVars, cbVars, cooling, rmVars, health, fiVars, gmVars, memVars, rlcVars, lkVars, frVars>>
    \/ \E p \in P : ChatAttemptWith(p, errors) /\ UNCHANGED <<now, rlVars, cbVars, cooling, rmVars, monVars, health, fiVars, gmVars, memVars, rlcVars, lkVars, frVars>>
    \/ \E p \in P : ChatTimer(p) /\ UNCHANGED <<now, rlVars, cbVars, cooling, rmVars, monVars, health, fiVars, gmVars, memVars, rlcVars, lkVars, frVars>>
    \/ \E p \in P : ChatCancel(p) /\ UNCHANGED <<now, rlVars, cbVars, cooling, rmVars, monVars, health, fiVars, gmVars, memVars, rlcVars, lkVars, frVars>>
    \/ \E p \in P : ChatCircuitBreakerRecordFailure(p) /\ UNCHANGED <<now, rlVars, rmVars, monVars, health, fiVars, gmVars, memVars, rlcVars, lkVars, frVars>>
    \/ \E p \in P : ChatCircuitBreakerRecordSuccess(p) /\ UNCHANGED <<now, rlVars, rmVars, monVars, health, fiVars, gmVars, memVars, rlcVars, lkVars, frVars>>
    \/ \E p \in P : ChatMonitorRecordFailure(p) /\ UNCHANGED <<now, rlVars, cbVars, cooling, rmVars, health, fiVars, gmVars, memVars, rlcVars, lkVars, frVars>>
    \/ \E p \in P : ChatMonitorRecordSuccess(p) /\ UNCHANGED <<now, rlVars, cbVars, cooling, rmVars, health, fiVars, gmVars, memVars, rlcVars, lkVars, frVars>>

ChatNext(P) == ChatNextWith(P, ChatErrors)

\* the whole agent: the callers call Chat again and again
Next ==
    \/ ChatNext(Callers)
    \/ ChatTick

Spec == Init /\ [][Next]_vars

\* one goroutine calls Chat again and again while another polls
\* GetHealthStatus
NextHS ==
    \/ ChatNext({"a"})
    \/ GetHealthStatusBreaker /\ UNCHANGED <<now, rlVars, cbVars, cooling, rmVars, monVars, chat, fiVars, gmVars, memVars, rlcVars, lkVars, frVars>>
    \/ GetHealthStatusLimiter /\ UNCHANGED <<now, rlVars, cbVars, cooling, rmVars, monVars, chat, fiVars, gmVars, memVars, rlcVars, lkVars, frVars>>
    \/ ChatTick

SpecHS == Init /\ [][NextHS]_vars

\* the whole agent on an API that fails with the text of the agent's own
\* rejections
EchoErrors ==
    {classifyError(e) : e \in {"circuit breaker is open", "rate limit exceeded"}}

NextED ==
    \/ ChatNextWith(Callers, EchoErrors)
    \/ ChatTick

SpecED == Init /\ [][NextED]_vars

\* Execute on the operation layer itself: performRequest returning any of its
\* errors, under several lists of retriable errors
LayerRetryConfigs ==
    [MaxAttempts : {MaxMaxAttempts - 1}, BaseDelay : {MaxBaseDelay}, MaxDelay : {2},
     BackoffMultiplier : {2}, JitterPercent : {0},
     RetriableErrors : {DefaultRetriableErrors, <<"network">>, <<"timeout", "other">>}]

InitOL ==
    /\ now = 0
    /\ InitRateLimiter({DefaultRateLimitConfig})
    /\ InitCircuitBreaker({DefaultCircuitBreakerConfig})
    /\ InitExecute(LayerRetryConfigs)
    /\ InitMonitor
    /\ InitChat
    /\ InitFaultInjector
    /\ InitGetMetrics
    /\ InitMemory({10})
    /\ InitAllow
    /\ InitLocks
    /\ InitFaultCalls

NextOL ==
    \/ ExecuteAttemptWith(LayerErrors) /\ UNCHANGED <<now, rlVars, cbVars, cooling, monVars, chatVars, fiVars, gmVars, memVars, rlcVars, lkVars, frVars>>
    \/ ExecuteSelect /\ UNCHANGED <<now, rlVars, cbVars, cooling, monVars, chatVars, fiVars, gmVars, memVars, rlcVars, lkVars, frVars>>
    \/ ExecuteResume /\ UNCHANGED <<now, rlVars, cbVars, cooling, monVars, chatVars, fiVars, gmVars, memVars, rlcVars, lkVars, frVars>>
    \/ TimerFire /\ UNCHANGED <<now, rlVars, cbVars, cooling, monVars, chatVars, fiVars, gmVars, memVars, rlcVars, lkVars, frVars>>
    \/ ChatTick

SpecOL == InitOL /\ [][NextOL]_vars

\* Execute on an operation that keeps failing with a retriable error, under
\* configurations whose backoff reaches and passes MaxDelay
BackoffConfigs ==
    [MaxAttempts : {MaxMaxAttempts + 1}, BaseDelay : 0..MaxBaseDelay,
     MaxDelay : {MaxBaseDelay, MaxBaseDelay + 1, MaxBaseDelay + 2},
     BackoffMultiplier : {2, 3}, JitterPercent : {0, 25},
     RetriableErrors : {DefaultRetriableErrors}]

InitBO ==
    /\ now = 0
    /\ InitRateLimiter({DefaultRateLimitConfig})
    /\ InitCircuitBreaker({DefaultCircuitBreakerConfig})
    /\ InitExecute(BackoffConfigs)
    /\ InitMonitor
    /\ InitChat
    /\ InitFaultInjector
    /\ InitGetMetrics
    /\ InitMemory({10})
    /\ InitAllow
    /\ InitLocks
    /\ InitFaultCalls

NextBO ==
    \/ ExecuteAttemptWith({"timeout: simulated timeout error"}) /\ UNCHANGED <<now, rlVars, cbVars, cooling, monVars, chatVars, fiVars, gmVars, memVars, rlcVars, lkVars, frVars>>
    \/ ExecuteSelect /\ UNCHANGED <<now, rlVars, cbVars, cooling, monVars, chatVars, fiVars, gmVars, memVars, rlcVars, lkVars, frVars>>
    \/ ExecuteResume /\ UNCHANGED <<now, rlVars, cbVars, cooling, monVars, chatVars, fiVars, gmVars, memVars, rlcVars, lkVars, frVars>>
    \/ TimerFire /\ UNCHANGED <<now, rlVars, cbVars, cooling, monVars, chatVars, fiVars, gmVars, memVars, rlcVars, lkVars, frVars>>
    \/ Tick

SpecBO == InitBO /\ [][NextBO]_vars

\* the fault injector on its own: faults are injected and cleared and
\* ShouldFail is called at any moment
InitFI ==
    /\ now = 0
    /\ InitRateLimiter({DefaultRateLimitConfig})
    /\ InitCircuitBreaker({DefaultCircuitBreakerConfig})
    /\ InitExecute({DefaultRetryConfig})
    /\ InitMonitor
    /\ InitChat
    /\ InitFaultInjector
    /\ InitGetMetrics
    /\ InitMemory({10})
    /\ InitAllow
    /\ InitLocks
    /\ InitFaultCalls

NextFI ==
    \/ \E faultType \in InjectedFaults, d \in 1..MaxFaultDuration :
          InjectFault(faultType, d) /\ UNCHANGED <<now, rlVars, cbVars, cooling, rmVars, monVars, chatVars, gmVars, memVars, rlcVars, lkVars, frVars>>
    \/ ClearFaults /\ UNCHANGED <<now, rlVars, cbVars, cooling, rmVars, monVars, chatVars, gmVars, memVars, rlcVars, lkVars, frVars>>
    \/ ShouldFail /\ UNCHANGED <<now, rlVars, cbVars, cooling, rmVars, monVars, chatVars, gmVars, memVars, rlcVars, lkVars, frVars>>
    \/ TickTo(MaxFaultTime)

SpecFI == InitFI /\ [][NextFI]_vars

\* GetMetrics on a monitor that holds any of a set of sample lists: every
\* short list, and long lists of distinct latencies in rotated order
ShortSamples == UNION {[1..n -> 1..MaxLatency] : n \in 0..MaxShortLen}

LongSamples ==
    {[i \in 1..n |-> ((i + r) % n) + 1] : n \in P95MinSamples..MaxLongLen, r \in 0..(2 * MaxLatency)}

InitGM ==
    /\ now = 0
    /\ InitRateLimiter({DefaultRateLimitConfig})
    /\ InitCircuitBreaker({DefaultCircuitBreakerConfig})
    /\ InitExecute({DefaultRetryConfig})
    /\ \E responseTimes \in ShortSamples \cup LongSamples :
          monitor = [NewMonitor EXCEPT !.responseTimes = responseTimes]
    /\ monCalls = NoCalls
    /\ mu = "free"
    /\ rec = [g \in Goroutines |-> NoRecord]
    /\ InitChat
    /\ InitFaultInjector
    /\ InitGetMetrics
    /\ InitMemory({10})
    /\ InitAllow
    /\ InitLocks
    /\ InitFaultCalls

NextGM ==
    GetMetrics /\ UNCHANGED <<now, rlVars, cbVars, cooling, rmVars, chatVars, fiVars, memVars, rlcVars, lkVars, frVars>>

SpecGM == InitGM /\ [][NextGM]_vars

\* the chatbot Memory on its own: a Memory of any small limit, on which the
\* system message is set and messages are added in any order
InitMem ==
    /\ now = 0
    /\ InitRateLimiter({DefaultRateLimitConfig})
    /\ InitCircuitBreaker({DefaultCircuitBreakerConfig})
    /\ InitExecute({DefaultRetryConfig})
    /\ InitMonitor
    /\ InitChat
    /\ InitFaultInjector
    /\ InitGetMetrics
    /\ InitMemory(0..MaxMaxHistory)
    /\ InitAllow
    /\ InitLocks
    /\ InitFaultCalls

NextMem ==
    \/ \E role \in Roles, content \in Contents :
          AddMessage(role, content) /\ UNCHANGED <<now, rlVars, cbVars, cooling, rmVars, monVars, chatVars, fiVars, gmVars, rlcVars, lkVars, frVars>>
    \/ \E content \in Prompts :
          SetSystemMessage(content) /\ UNCHANGED <<now, rlVars, cbVars, cooling, rmVars, monVars, chatVars, fiVars, gmVars, rlcVars, lkVars, frVars>>

SpecMem == InitMem /\ [][NextMem]_vars

\* the rate limiter called by concurrent goroutines, under any configuration
InitRLC ==
    /\ now = 0
    /\ InitRateLimiter(RateLimitConfigs)
    /\ InitCircuitBreaker({DefaultCircuitBreakerConfig})
    /\ InitExecute({DefaultRetryConfig})
    /\ InitMonitor
    /\ InitChat
    /\ InitFaultInjector
    /\ InitGetMetrics
    /\ InitMemory({10})
    /\ InitAllow
    /\ InitLocks
    /\ InitFaultCalls

NextRLC ==
    \/ \E g \in Goroutines :
          AllowLock(g) /\ UNCHANGED <<now, cbVars, cooling, rmVars, monVars, chatVars, fiVars, gmVars, memVars, lkVars, frVars>>
    \/ \E g \in Goroutines :
          AllowLoad(g) /\ UNCHANGED <<now, cbVars, cooling, rmVars, monVars, chatVars, fiVars, gmVars, memVars, lkVars, frVars>>
    \/ \E g \in Goroutines :
          AllowStore(g) /\ UNCHANGED <<now, cbVars, cooling, rmVars, monVars, chatVars, fiVars, gmVars, memVars, lkVars, frVars>>
    \/ Tick

SpecRLC == InitRLC /\ [][NextRLC]_vars

\* the agent's calls made by concurrent goroutines, as far as locks go
InitLK ==
    /\ now = 0
    /\ InitRateLimiter({DefaultRateLimitConfig})
    /\ InitCircuitBreaker({DefaultCircuitBreakerConfig})
    /\ InitExecute({DefaultRetryConfig})
    /\ InitMonitor
    /\ InitChat
    /\ InitFaultInjector
    /\ InitGetMetrics
    /\ InitMemory({10})
    /\ InitAllow
    /\ InitLocks
    /\ InitFaultCalls

NextLK ==
    \/ \E g \in Lockers : LockCall(g) /\ UNCHANGED <<now, rlVars, cbVars, cooling, rmVars, monVars, chatVars, fiVars, gmVars, memVars, rlcVars, frVars>>
    \/ \E g \in Lockers : LockAnnounce(g) /\ UNCHANGED <<now, rlVars, cbVars, cooling, rmVars, monVars, chatVars, fiVars, gmVars, memVars, rlcVars, frVars>>
    \/ \E g \in Lockers : LockAcquire(g) /\ UNCHANGED <<now, rlVars, cbVars, cooling, rmVars, monVars, chatVars, fiVars, gmVars, memVars, rlcVars, frVars>>
    \/ \E g \in Lockers : RLockAcquire(g) /\ UNCHANGED <<now, rlVars, cbVars, cooling, rmVars, monVars, chatVars, fiVars, gmVars, memVars, rlcVars, frVars>>
    \/ \E g \in Lockers : Unlock(g) /\ UNCHANGED <<now, rlVars, cbVars, cooling, rmVars, monVars, chatVars, fiVars, gmVars, memVars, rlcVars, frVars>>
    \/ \E g \in Lockers : RUnlock(g) /\ UNCHANGED <<now, rlVars, cbVars, cooling, rmVars, monVars, chatVars, fiVars, gmVars, memVars, rlcVars, frVars>>

SpecLK == InitLK /\ [][NextLK]_vars

\* the breaker while the API heals: attempts fail only before HealTime and
\* succeed from then on; callers keep calling, admitted calls return, time
\* goes on, and a half-open breaker that is asked again and again admits a
\* test request in the end
AdmittedAllow == CircuitBreakerAllow /\ cbObs'.ok /\ UNCHANGED <<now, rlVars, rmVars, monVars, chatVars, fiVars, gmVars, memVars, rlcVars, lkVars, frVars>>

FailureBeforeHeal == now < HealTime /\ CircuitBreakerRecordFailure /\ UNCHANGED <<now, rlVars, rmVars, monVars, chatVars, fiVars, gmVars, memVars, rlcVars, lkVars, frVars>>

SuccessReturn == CircuitBreakerRecordSuccess /\ UNCHANGED <<now, rlVars, rmVars, monVars, chatVars, fiVars, gmVars, memVars, rlcVars, lkVars, frVars>>

NextRC ==
    \/ CircuitBreakerAllow /\ UNCHANGED <<now, rlVars, rmVars, monVars, chatVars, fiVars, gmVars, memVars, rlcVars, lkVars, frVars>>
    \/ FailureBeforeHeal
    \/ SuccessReturn
    \/ Tick

\* the configurations of the recovery runs: any timeout, test rate and
\* number of successes to close, under the largest failure threshold
RecoveryConfigs ==
    {config \in CircuitBreakerConfigs : config.FailureThreshold = MaxFailureThreshold}

InitRC ==
    /\ InitCB
    /\ cbConfig \in RecoveryConfigs

SpecRC ==
    /\ InitRC
    /\ [][NextRC]_vars
    /\ WF_vars(Tick)
    /\ WF_vars(SuccessReturn)
    /\ SF_vars(AdmittedAllow)

\* the fault injector called by concurrent goroutines: Chat calls reach
\* ShouldFail through performRequest while faults are injected and cleared
InitFR ==
    /\ now = 0
    /\ InitRateLimiter({DefaultRateLimitConfig})
    /\ InitCircuitBreaker({DefaultCircuitBreakerConfig})
    /\ InitExecute({DefaultRetryConfig})
    /\ InitMonitor
    /\ InitChat
    /\ InitFaultInjector
    /\ InitGetMetrics
    /\ InitMemory({10})
    /\ InitAllow
    /\ InitLocks
    /\ InitFaultCalls

NextFR ==
    \/ \E g \in Goroutines, faultType \in InjectedFaults, d \in 1..MaxFaultDuration :
          FaultLock(g, "InjectFault", faultType, d) /\ UNCHANGED <<now, rlVars, cbVars, cooling, rmVars, monVars, chatVars, gmVars, memVars, rlcVars, lkVars>>
    \/ \E g \in Goroutines : FaultLock(g, "ClearFaults", "", 0) /\ UNCHANGED <<now, rlVars, cbVars, cooling, rmVars, monVars, chatVars, gmVars, memVars, rlcVars, lkVars>>
    \/ \E g \in Goroutines : FaultWrite(g) /\ UNCHANGED <<now, rlVars, cbVars, cooling, rmVars, monVars, chatVars, gmVars, memVars, rlcVars, lkVars>>
    \/ \E g \in Goroutines : ShouldFailRLock(g) /\ UNCHANGED <<now, rlVars, cbVars, cooling, rmVars, monVars, chatVars, gmVars, memVars, rlcVars, lkVars>>
    \/ \E g \in Goroutines : ShouldFailScan(g) /\ UNCHANGED <<now, rlVars, cbVars, cooling, rmVars, monVars, chatVars, gmVars, memVars, rlcVars, lkVars>>
    \/ \E g \in Goroutines : ShouldFailClean(g) /\ UNCHANGED <<now, rlVars, cbVars, cooling, rmVars, monVars, chatVars, gmVars, memVars, rlcVars, lkVars>>
    \/ TickTo(MaxFaultTime)

SpecFR == InitFR /\ [][NextFR]_vars

\* ------------------------------------------------- rate limiter: claims

\* C1: after every RateLimiter.Allow() call, whatever the (non-negative) time
\* elapsed between calls, the token count is at least 0 and at most BurstSize.
C1_TokenBounds ==
    /\ tokens >= 0
    /\ tokens <= rlConfig.BurstSize * TokenOne

\* a call was rejected, and the last call came after an idle period long
\* enough to overfill even an empty bucket, so the cap decided its refill
C1_Witness ==
    LET n == Len(rlLog)
    IN /\ n >= 2
       /\ \E j \in 1..n : ~rlLog[j].ok
       /\ (rlLog[n].at - rlLog[n-1].at) * rlConfig.RequestsPerMinute
             > rlConfig.BurstSize * TokenOne
       /\ rlLog[n].ok
       /\ tokens = rlConfig.BurstSize * TokenOne - TokenOne

\* C2: from a fresh limiter with BurstSize = C and no time elapsing, exactly
\* the first C Allow() calls return true and call C+1 returns false; when the
\* time to refill exactly one token has then elapsed, the next call returns
\* true and the one right after it (no further time elapsing) returns false.
C2_BurstThenRefill ==
    LET C == rlConfig.BurstSize
        n == Len(rlLog)
    IN /\ \A i \in 1..n : rlLog[i].at = 0 => (rlLog[i].ok <=> i <= C)
       /\ ( /\ n >= C + 2
            /\ rlLog[C+1].at = 0
            /\ rlLog[C+2].at * rlConfig.RequestsPerMinute = TokenOne )
          => /\ rlLog[C+2].ok
             /\ (n >= C + 3 /\ rlLog[C+3].at = rlLog[C+2].at) => ~rlLog[C+3].ok

\* C+1 calls at creation time, then two calls exactly one token's time later
C2_Witness ==
    LET C == rlConfig.BurstSize
        n == Len(rlLog)
    IN /\ n >= C + 3
       /\ C >= 2
       /\ rlLog[C+1].at = 0
       /\ rlLog[C+2].at * rlConfig.RequestsPerMinute = TokenOne
       /\ rlLog[C+3].at = rlLog[C+2].at
       /\ rlLog[C+2].ok /\ ~rlLog[C+3].ok

\* ---------------------------------------------- circuit breaker: claims

\* C3: from Closed with failure counter 0 and FailureThreshold = N >= 1, the
\* breaker is still Closed after fewer than N RecordFailure() calls in a row
\* and Open after the Nth.
C3_Threshold ==
    failRun >= 0 =>
        /\ failRun < cbConfig.FailureThreshold => state = CircuitClosed
        /\ failRun = cbConfig.FailureThreshold => state = CircuitOpen

\* the Nth failure in a row (N >= 2) has just opened the breaker
C3_Witness ==
    /\ cbConfig.FailureThreshold >= 2
    /\ failRun = cbConfig.FailureThreshold
    /\ cbObs.op = "RecordFailure"
    /\ cbObs.before = CircuitClosed
    /\ state = CircuitOpen

\* C4: once Open has been entered, every Allow() returns false until
\* RecoveryTimeout has elapsed since the last recorded failure, whatever the
\* interleaving of Allow, RecordSuccess and RecordFailure of concurrent calls.
C4_OpenRejectsUntilTimeout ==
    (cbObs.op = "Allow" /\ cbObs.cooling) => ~cbObs.ok

\* C5: an Allow() made while the breaker is Open and RecoveryTimeout has
\* elapsed since lastFailureTime moves the state from Open to HalfOpen.
C5_AllowMovesToHalfOpen ==
    (cbObs.op = "Allow" /\ cbObs.before = CircuitOpen /\ cbObs.ripe)
        => state = CircuitHalfOpen

\* C6: a RecordSuccess() made while HalfOpen closes the breaker when, and only
\* when, it is the ConsecutiveSuccesses-th success in a row recorded in HalfOpen.
C6_ClosesOnlyAfterThreshold ==
    (cbObs.op = "RecordSuccess" /\ cbObs.before = CircuitHalfOpen)
        => (state = CircuitClosed <=> hoSuccesses >= cbConfig.ConsecutiveSuccesses)

\* C7: a RecordFailure() made while HalfOpen leaves the breaker Open, whatever
\* the counters were.
C7_HalfOpenFailureOpens ==
    (cbObs.op = "RecordFailure" /\ cbObs.before = CircuitHalfOpen)
        => state = CircuitOpen

\* a failure was recorded in HalfOpen and the breaker is Open again
C7_Witness ==
    /\ cbObs.op = "RecordFailure"
    /\ cbObs.before = CircuitHalfOpen
    /\ state = CircuitOpen
    /\ failureCount = 1

\* ------------------------------------------------ retry manager: claims

\* every operation() call so far failed with an error isRetriable accepts
AlwaysFailedRetriable ==
    \A i \in 1..Len(opLog) :
        opLog[i] # NoError /\ isRetriable(rmConfig, opLog[i])

\* C8: with MaxAttempts = M >= 1, an uncancelled context and an operation
\* that fails with a retriable error every time, Execute never invokes the
\* operation more than M times, and when it returns it has invoked it
\* exactly M times and returns an error.
C8_RetryExhaustion ==
    (rmConfig.MaxAttempts >= 1 /\ ctxErr = NoError /\ AlwaysFailedRetriable)
        => /\ Len(opLog) <= rmConfig.MaxAttempts
           /\ pc = "done" => /\ Len(opLog) = rmConfig.MaxAttempts
                              /\ rmRet.err # NoError

\* three retriable failures with MaxAttempts = 3, then the return
C8_Witness ==
    /\ rmConfig.MaxAttempts = 3
    /\ ctxErr = NoError
    /\ AlwaysFailedRetriable
    /\ pc = "done"
    /\ Len(opLog) = 3
    /\ Len(delayLog) = 2
    /\ rmRet.err = opLog[3]

CancelledInDelay == cancelObs.pc = "parked" /\ cancelObs.woken = "none"

\* C10: if the context is cancelled while Execute waits in an inter-attempt
\* delay, Execute never invokes the operation again and returns ctx.Err(),
\* not the operation's last error.
C10_CancelDuringDelay ==
    CancelledInDelay
        => /\ Len(opLog) = cancelObs.calls
           /\ pc \in {"parked", "done"}
           /\ pc = "done" => /\ rmRet.err = ctxErr
                              /\ rmRet.err \in ContextErrors
                              /\ rmRet.err # lastErr

\* cancelled in the delay; Execute returned ctx.Err() although the delay had
\* run out by the time it resumed
C10_Witness ==
    /\ CancelledInDelay
    /\ pc = "done"
    /\ now >= timerAt
    /\ lastErr # NoError
    /\ rmRet = [result |-> "", err |-> "context canceled"]

\* the context was cancelled before Execute returned
CancelledBeforeReturn == cancelObs.pc \in {"loop", "select", "parked"}

\* C11: whenever the context is cancelled before Execute returns (before the
\* first attempt, during an attempt, or when the last attempt or a
\* non-retriable error ends the loop), an Execute that returns an error
\* returns the cancellation error, never the operation's own error.
C11_CancelAlwaysWins ==
    (CancelledBeforeReturn /\ pc = "done" /\ rmRet.err # NoError)
        => rmRet.err \in ContextErrors

\* ------------------------------------------------------- Chat: claims

\* where a step stands in the order rate-limiter check, circuit-breaker
\* admission, retry-wrapped operation, outcome recording
Rank(st) ==
    CASE st.step = "RateLimiter.Allow" -> 1
      [] st.step = "CircuitBreaker.Allow" -> 2
      [] st.step \in {"operation", "ctx.Done"} -> 3
      [] st.step \in {"CircuitBreaker.RecordFailure", "CircuitBreaker.RecordSuccess"} -> 4
      [] OTHER -> 5

\* the positions of the trace tr at which one of the steps in names was taken
Steps(tr, names) == {i \in DOMAIN tr : tr[i].step \in names}

\* C12: in every Chat call the steps come in the order rate-limiter check,
\* circuit-breaker admission, retry-wrapped operation, outcome recording, each
\* gate being asked once; the operation is invoked only after RateLimiter.Allow()
\* and then CircuitBreaker.Allow() returned true in that call, and a call that
\* a gate rejected never invokes the operation.
C12_FixedOrder ==
    \A p \in Callers :
      LET tr == chat[p].trace
      IN /\ \A i, j \in DOMAIN tr :
              i < j => \/ Rank(tr[i]) < Rank(tr[j])
                       \/ Rank(tr[i]) = 3 /\ Rank(tr[j]) = 3
         /\ \A i \in Steps(tr, {"operation"}) :
              \E j, k \in 1..(i - 1) :
                 /\ j < k
                 /\ tr[j] = Step("RateLimiter.Allow", "true")
                 /\ tr[k] = Step("CircuitBreaker.Allow", "true")
         /\ (\E j \in DOMAIN tr : tr[j].out = "false")
              => Steps(tr, {"operation"}) = {}

\* one call has returned after invoking the operation and another after the
\* breaker rejected it
C12_Witness ==
    \E p, q \in Callers :
       /\ chat[p].pc = "done" /\ Steps(chat[p].trace, {"operation"}) # {}
       /\ chat[q].pc = "done"
       /\ Step("CircuitBreaker.Allow", "false") \in
             {chat[q].trace[i] : i \in DOMAIN chat[q].trace}

\* caller p takes a step from location l to location m
Moves(p, l, m) == chat[p].pc \in l /\ chat'[p].pc = m

\* the step leaves the circuit breaker's state and counters as they are
BreakerUntouched == UNCHANGED <<state, failureCount, successCount, lastFailureTime>>

\* C13: a Chat call rejected by the rate limiter consists of the Allow() that
\* returns false and of Monitor.RecordRateLimited; the two steps together
\* increment the monitor's rate-limited count by one and leave the circuit
\* breaker's state, failureCount, successCount and lastFailureTime and the
\* monitor's successful and failed counts unchanged.
C13_RateLimitedFrame ==
    [][\A p \in Callers :
         /\ Moves(p, {"idle", "done"}, "rlRejected")
              => BreakerUntouched /\ UNCHANGED monitor
         /\ Moves(p, {"rlRejected"}, "done")
              => /\ BreakerUntouched
                 /\ monitor'.rateLimitedRequests = monitor.rateLimitedRequests + 1
                 /\ monitor'.successfulRequests = monitor.successfulRequests
                 /\ monitor'.failedRequests = monitor.failedRequests
                 /\ chat'[p].trace = <<Step("RateLimiter.Allow", "false"),
                                       Step("Monitor.RecordRateLimited", "")>>]_vars

\* a call the rate limiter rejected has returned, while the breaker and the
\* monitor had work recorded by an earlier call
C13_Witness ==
    \E p \in Callers :
       /\ chat[p].pc = "done"
       /\ chat[p].ret.err = "rate limit exceeded"
       /\ monitor.rateLimitedRequests = 1
       /\ monitor.failedRequests = 1
       /\ failureCount = 1

\* C14: a Chat call that passes the rate limiter but is rejected by the
\* circuit breaker consists, after the two Allow() calls, of one
\* Monitor.RecordFailure: it returns the error "circuit breaker is open",
\* increments the monitor's failed count by exactly one and nothing else but
\* the total, and neither the rejecting Allow() nor the recording changes the
\* breaker's state or counters.
C14_OpenRejection ==
    [][\A p \in Callers :
         /\ Moves(p, {"cb"}, "cbRejected")
              => BreakerUntouched /\ UNCHANGED monitor
         /\ Moves(p, {"cbRejected"}, "done")
              => /\ BreakerUntouched
                 /\ chat'[p].ret = [result |-> "", err |-> "circuit breaker is open"]
                 /\ monitor'.failedRequests = monitor.failedRequests + 1
                 /\ monitor'.successfulRequests = monitor.successfulRequests
                 /\ monitor'.rateLimitedRequests = monitor.rateLimitedRequests
                 /\ chat'[p].trace = <<Step("RateLimiter.Allow", "true"),
                                       Step("CircuitBreaker.Allow", "false"),
                                       Step("Monitor.RecordFailure", "")>>]_vars

\* a call the open breaker rejected has returned, and its rejection is the
\* second failure the monitor counts
C14_Witness ==
    \E p \in Callers :
       /\ chat[p].pc = "done"
       /\ chat[p].ret.err = "circuit breaker is open"
       /\ state = CircuitOpen
       /\ monitor.failedRequests = 2
       /\ failureCount = 1

BreakerRecords == {"CircuitBreaker.RecordFailure", "CircuitBreaker.RecordSuccess"}

\* the call whose trace is tr was admitted by both gates
Admitted(tr) ==
    /\ Len(tr) >= 2
    /\ tr[1] = Step("RateLimiter.Allow", "true")
    /\ tr[2] = Step("CircuitBreaker.Allow", "true")

\* C15: a Chat call calls CircuitBreaker.RecordSuccess / RecordFailure at most
\* once, never before an invocation of the operation, and only if both gates
\* admitted it; once an admitted call has returned it has called exactly one
\* of the two, exactly once, however many attempts were made; and an attempt
\* that fails and is retried does not touch the breaker.
C15_RecordedOnce ==
    /\ [](\A p \in Callers :
            LET tr == chat[p].trace
                recs == Steps(tr, BreakerRecords)
            IN /\ Cardinality(recs) <= 1
               /\ \A i \in recs : \A j \in Steps(tr, {"operation"}) : j < i
               /\ recs # {} => Admitted(tr)
               /\ (Admitted(tr) /\ chat[p].pc = "done") => Cardinality(recs) = 1)
    /\ [][\A p \in Callers : Moves(p, {"exec"}, "delay") => BreakerUntouched]_vars

\* a call has returned after two attempts and one report to the breaker
C15_Witness ==
    \E p \in Callers :
       /\ chat[p].pc = "done"
       /\ Cardinality(Steps(chat[p].trace, {"operation"})) = 2
       /\ Cardinality(Steps(chat[p].trace, BreakerRecords)) = 1

\* the outcomes of the operation in the call whose trace is tr, in order
Outcomes(tr) ==
    LET ops == Steps(tr, {"operation"})
        nth(n) == CHOOSE i \in ops : Cardinality({j \in ops : j <= i}) = n
    IN [n \in 1..Cardinality(ops) |-> tr[nth(n)].out]

\* in the call whose trace is tr the operation failed k times, each time with
\* a retriable error, and then succeeded, for some k < MaxAttempts
SucceededAfterFailures(tr) ==
    LET outs == Outcomes(tr)
    IN /\ Len(outs) >= 1
       /\ Len(outs) - 1 < rmConfig.MaxAttempts
       /\ outs[Len(outs)] = NoError
       /\ \A n \in 1..(Len(outs) - 1) :
             outs[n] # NoError /\ isRetriable(rmConfig, outs[n])

\* C16: a Chat call whose operation fails k < MaxAttempts times with retriable
\* errors and then succeeds returns the success value and a nil error; its
\* report to the breaker leaves failureCount at 0 and the monitor alone, and
\* its report to the monitor increases successfulRequests by exactly 1 and
\* failedRequests by 0.
C16_SuccessAfterRetries ==
    /\ [](\A p \in Callers :
            (SucceededAfterFailures(chat[p].trace)
                 /\ chat[p].pc \in {"cbRecord", "monRecord", "done"})
               => chat[p].ret = [result |-> Response, err |-> NoError])
    /\ [][\A p \in Callers :
            SucceededAfterFailures(chat[p].trace) =>
              /\ Moves(p, {"cbRecord"}, "monRecord")
                   => failureCount' = 0 /\ UNCHANGED monitor
              /\ Moves(p, {"monRecord"}, "done")
                   => /\ monitor'.successfulRequests = monitor.successfulRequests + 1
                      /\ monitor'.failedRequests = monitor.failedRequests
                      /\ BreakerUntouched]_vars

\* a call has returned the response after a retriable failure and a retry
C16_Witness ==
    \E p \in Callers :
       /\ chat[p].pc = "done"
       /\ SucceededAfterFailures(chat[p].trace)
       /\ Len(Outcomes(chat[p].trace)) = 2
       /\ monitor.successfulRequests = 1
       /\ failureCount = 0

\* ----------------------------------------------------- monitor: claims

\* C17: after any sequence of Monitor.RecordSuccess, RecordFailure,
\* RecordRateLimited and Reset calls, the number of retained latency samples
\* does not exceed the cap (MaxResponseTimes here, 1000 in the code).
C17_SampleCap == Len(monitor.responseTimes) <= MaxResponseTimes

\* the counters that the calls finished since construction or the last Reset
\* should have produced
CountersMatchCalls ==
    /\ monitor.totalRequests = Recorded
    /\ monitor.successfulRequests = monCalls.success
    /\ monitor.failedRequests = monCalls.failure
    /\ monitor.rateLimitedRequests = monCalls.rateLimited

\* C18: after any interleaving of n RecordSuccess, RecordFailure and
\* RecordRateLimited calls made by concurrent goroutines with no Reset,
\* totalRequests has grown by exactly n and each of successfulRequests,
\* failedRequests and rateLimitedRequests by exactly the number of calls of
\* its kind (after a Reset the same holds of the calls made since).
C18_NoLostUpdate == InProgress = 0 => CountersMatchCalls

\* calls of all three kinds have been recorded and Reset never ran
C18_Witness ==
    /\ ~monCalls.reset
    /\ monCalls.success >= 1
    /\ monCalls.failure >= 1
    /\ monCalls.rateLimited >= 2

Categories == {"rate_limit", "timeout", "server_error", "network", "other"}

\* err starts with the tag "c: "
HasTag(err, c) ==
    Len(err) >= Len(c) + 2 /\ SubSeq(err, 1, Len(c) + 2) = c \o ": "

\* the one category of an error: the tag it carries if that is one of the
\* four, and other if it carries none of them
Category(err) ==
    IF \E c \in Categories \ {"other"} : HasTag(err, c)
    THEN CHOOSE c \in Categories \ {"other"} : HasTag(err, c)
    ELSE "other"

Retriable == {rmConfig.RetriableErrors[i] : i \in DOMAIN rmConfig.RetriableErrors}

\* C20: every error the operation layer produced belongs to exactly one of
\* the categories rate_limit, timeout, server_error, network, other, and
\* Execute retried it (computed a delay after it) only if that category is in
\* RetriableErrors, and gave up on it before the last attempt only if that
\* category is not in RetriableErrors.
C20_CategoryDecidesRetry ==
    \A k \in DOMAIN opLog :
       opLog[k] # NoError =>
          /\ Cardinality({c \in Categories : Category(opLog[k]) = c}) = 1
          /\ k <= Len(delayLog) => Category(opLog[k]) \in Retriable
          /\ (pc = "done" /\ k > Len(delayLog) /\ k < rmConfig.MaxAttempts)
                => Category(opLog[k]) \notin Retriable

\* --------------------------------------------------- Chat errors: claims

\* the steps of a trace, as a set
StepsOf(tr) == {tr[i] : i \in DOMAIN tr}

\* which of the five conditions ended the call whose trace is tr with an error
Condition(tr) ==
    LET outs == Outcomes(tr)
    IN IF Step("RateLimiter.Allow", "false") \in StepsOf(tr) THEN "RateLimited"
       ELSE IF Step("CircuitBreaker.Allow", "false") \in StepsOf(tr) THEN "CircuitOpen"
       ELSE IF Steps(tr, {"ctx.Done"}) # {} THEN "Cancelled"
       ELSE IF Len(outs) > 0 /\ isRetriable(rmConfig, outs[Len(outs)]) THEN "Retriable"
       ELSE "NonRetriable"

\* C21: the error a Chat call returns tells which of the conditions
\* RateLimited, CircuitOpen, retriable failure, non-retriable failure and
\* Cancelled occurred: two calls that returned equal error values ended under
\* the same condition.
C21_ErrorTellsCondition ==
    \A p, q \in Callers :
       (/\ chat[p].pc = "done" /\ chat[q].pc = "done"
        /\ chat[p].ret.err # NoError
        /\ chat[p].ret.err = chat[q].ret.err)
          => Condition(chat[p].trace) = Condition(chat[q].trace)

\* ------------------------------------------------------ backoff: claims

\* BaseDelay * BackoffMultiplier^(n-1)
Exponential(config, n) == config.BaseDelay * Pow(config.BackoffMultiplier, n - 1)

\* C22: with JitterPercent = 0 (and BackoffMultiplier > 1), the delay that
\* calculateDelay returned for attempt k is
\* min(BaseDelay * BackoffMultiplier^(k-1), MaxDelay); it never exceeds
\* MaxDelay and is not below the delay returned for attempt k - 1.
C22_BackoffMonotone ==
    (rmConfig.JitterPercent = 0 /\ rmConfig.BackoffMultiplier > 1) =>
       \A k \in DOMAIN delayLog :
          /\ delayLog[k] = Min(Exponential(rmConfig, k), rmConfig.MaxDelay)
          /\ delayLog[k] <= rmConfig.MaxDelay
          /\ k > 1 => delayLog[k - 1] <= delayLog[k]

\* without jitter, three delays were computed, the first below MaxDelay and
\* the third cut down to it
C22_Witness ==
    /\ rmConfig.JitterPercent = 0
    /\ Len(delayLog) = 3
    /\ delayLog[1] < rmConfig.MaxDelay
    /\ Exponential(rmConfig, 3) > rmConfig.MaxDelay
    /\ delayLog[3] = rmConfig.MaxDelay

\* ------------------------------------------------- last error: claims

\* in the call whose trace is tr every one of MaxAttempts attempts failed and
\* the context was not cancelled
GaveUp(tr) ==
    LET outs == Outcomes(tr)
    IN /\ rmConfig.MaxAttempts >= 1
       /\ Len(outs) = rmConfig.MaxAttempts
       /\ \A n \in DOMAIN outs : outs[n] # NoError
       /\ Steps(tr, {"ctx.Done"}) = {}

\* C23: when Execute gives up after MaxAttempts failed attempts with an
\* uncancelled context, the error it returns to Chat is exactly the error of
\* the last attempt, and Chat returns that same error, and no result, to its
\* caller.
C23_LastErrorUnchanged ==
    \A p \in Callers :
       (GaveUp(chat[p].trace) /\ chat[p].pc \in {"cbRecord", "monRecord", "done"})
          => chat[p].ret =
                [result |-> "",
                 err |-> Outcomes(chat[p].trace)[rmConfig.MaxAttempts]]

\* a call has returned after a retriable failure and a last attempt that
\* failed with another error
C23_Witness ==
    \E p \in Callers :
       /\ chat[p].pc = "done"
       /\ GaveUp(chat[p].trace)
       /\ Outcomes(chat[p].trace)[1] # Outcomes(chat[p].trace)[rmConfig.MaxAttempts]
       /\ chat[p].ret.err = "quota: simulated quota exhaustion"

\* ------------------------------------------------- fault injector: claims

\* the registry reg holds one entry and nothing else
SoleFault(reg) == Cardinality(DOMAIN reg) = 1

\* C24: after InjectFault(t, d), for any label t and with no other fault
\* registered, a ShouldFail call made before the expiry returns an error and
\* a call made at or after the expiry returns nil.
C24_FaultWindow ==
    (fiObs.called /\ SoleFault(fiObs.before))
       => \A t \in DOMAIN fiObs.before :
             /\ fiObs.at < fiObs.before[t] => fiObs.err # NoError
             /\ fiObs.at >= fiObs.before[t] => fiObs.err = NoError

\* the same for the labels ShouldFail knows, which is what the code does
KnownFaultWindow ==
    (fiObs.called /\ SoleFault(fiObs.before))
       => \A t \in DOMAIN fiObs.before \cap KnownFaults :
             /\ fiObs.at < fiObs.before[t] => fiObs.err = FaultError(t)
             /\ fiObs.at >= fiObs.before[t] => fiObs.err = NoError

\* C25: after any ShouldFail call the registry holds no entry whose expiry
\* lies before the time of the call, whether or not another fault was active.
C25_ExpiredPurged ==
    fiObs.called => \A t \in DOMAIN fiObs.after : ~(fiObs.after[t] < fiObs.at)

\* the same for the calls that return nil, which is when the code cleans
PurgedWhenNil ==
    (fiObs.called /\ fiObs.err = NoError)
       => \A t \in DOMAIN fiObs.after : ~(fiObs.after[t] < fiObs.at)

\* a call that returned nil dropped an expired entry
PurgeHappens ==
    /\ fiObs.called
    /\ fiObs.err = NoError
    /\ \E t \in DOMAIN fiObs.before : t \notin DOMAIN fiObs.after

\* ---------------------------------------------------- percentile: claims

\* s in ascending order: the sorted list with the same elements
Ascending(s) == BubbleSort(s, 0)

\* the nearest-rank 95th percentile of s, the value at rank ceil(0.95 * n)
NearestRank95(s) == Ascending(s)[(Len(s) * 95 + 99) \div 100]

\* C26: the P95ResponseTime that GetMetrics reports is the nearest-rank 95th
\* percentile of the retained samples for every non-empty sample list, and
\* the stored samples and their order are as they were before the call.
C26_NearestRank ==
    metrics.called =>
       /\ Len(metrics.samples) > 0
             => metrics.P95ResponseTime = NearestRank95(metrics.samples)
       /\ monitor.responseTimes = metrics.samples

\* what the code does: nothing (zero) below 20 samples, and from 20 samples on
\* the value at rank floor(0.95 * n) + 1, which is the nearest rank except
\* when 0.95 * n is whole; the stored samples stay as they were
P95AsComputed ==
    metrics.called =>
       LET n == Len(metrics.samples)
       IN /\ n < P95MinSamples => metrics.P95ResponseTime = 0
          /\ n >= P95MinSamples
                => metrics.P95ResponseTime = Ascending(metrics.samples)[(n * 95) \div 100 + 1]
          /\ (n >= P95MinSamples /\ (n * 95) % 100 # 0)
                => metrics.P95ResponseTime = NearestRank95(metrics.samples)
          /\ monitor.responseTimes = metrics.samples

\* a percentile was computed from an unsorted list of more than 20 samples
P95Computed ==
    /\ metrics.called
    /\ Len(metrics.samples) > P95MinSamples
    /\ metrics.samples # Ascending(metrics.samples)
    /\ metrics.P95ResponseTime = NearestRank95(metrics.samples)

\* -------------------------------------------------------- Memory: claims

C28_CountersReset ==
    /\ cbObs.op = "RecordSuccess" => failureCount = 0
    /\ (cbObs.op # "none" /\ cbObs.before # CircuitOpen /\ state = CircuitOpen)
          => /\ cbObs.op = "RecordFailure"
             /\ successCount = 0

\* a RecordSuccess has just zeroed a failure counter that was above 0
SuccessZeroedFailures ==
    /\ cbObs.op = "RecordSuccess"
    /\ cbObs.failures
    /\ failureCount = 0
    /\ successCount > 0

\* the breaker has just entered Open with a success counter that was above 0
C28_Witness ==
    /\ cbObs.op = "RecordFailure"
    /\ cbObs.successes
    /\ cbObs.before # CircuitOpen
    /\ state = CircuitOpen
    /\ successCount = 0

\* ---------------------------------------- rate limiter: concurrent callers

\* C29: of the concurrent Allow calls that find k >= 1 tokens in the bucket
\* and between which no time passes, at most floor(k) return true.
C29_AtMostFloorK ==
    allowObs.k >= TokenOne => allowObs.granted <= allowObs.k \div TokenOne

\* both goroutines called Allow at the same time on a bucket with at least
\* one and less than two tokens: one call returned true and one false
C29_Witness ==
    /\ allowObs.k >= TokenOne
    /\ allowObs.k < 2 * TokenOne
    /\ allowObs.granted = 1
    /\ Len(rlLog) >= 2
    /\ rlLog[Len(rlLog)].at = allowObs.t
    /\ rlLog[Len(rlLog) - 1].at = allowObs.t
    /\ ~rlLog[Len(rlLog)].ok

\* ------------------------------------------------- retried-request count

\* the retries of the call whose trace is tr: its attempts beyond the first
Retries(tr) == Cardinality(Steps(tr, {"operation"})) - 1

\* C30: after a Chat call in which the retry manager made r >= 1 retries, the
\* TotalRetries that GetMetrics reports (the monitor's totalRetries, never
\* reset here) has grown by r: it is at least r once the call has returned.
C30_RetriesCounted ==
    \A p \in Callers :
       (chat[p].pc = "done" /\ Retries(chat[p].trace) >= 1)
          => monitor.totalRetries >= Retries(chat[p].trace)

\* what the code does: the retry counters are never written
RetriesNeverCounted ==
    /\ monitor.totalRetries = 0
    /\ monitor.successfulRetries = 0
    /\ monitor.failedRetries = 0

\* ------------------------------------------------------ latency eviction

\* this step records a latency: a RecordSuccess or a RecordFailure returns
RecordsLatency ==
    \/ monCalls'.success = monCalls.success + 1
    \/ monCalls'.failure = monCalls.failure + 1

\* this step drops the oldest retained sample and keeps the others, in
\* order, followed by the new one
EvictsOldest ==
    /\ Len(monitor'.responseTimes) = Len(monitor.responseTimes)
    /\ \A i \in 1..(Len(monitor.responseTimes) - 1) :
          monitor'.responseTimes[i] = monitor.responseTimes[i + 1]

\* C31: when a latency is recorded while the cap of samples (MaxResponseTimes
\* here, 1000 in the code) is already retained, the oldest sample is evicted
\* and the retained samples are the most recently recorded ones, in order.
C31_OldestEvicted ==
    [][(RecordsLatency /\ Len(monitor.responseTimes) = MaxResponseTimes)
          => EvictsOldest]_vars

\* what the code does: a success recorded at the cap evicts the oldest
\* sample, a failure recorded at the cap evicts nothing
EvictionOnSuccessOnly ==
    [][(RecordsLatency /\ Len(monitor.responseTimes) = MaxResponseTimes)
          => IF monCalls'.success = monCalls.success + 1
             THEN EvictsOldest
             ELSE /\ Len(monitor'.responseTimes) = MaxResponseTimes + 1
                  /\ SubSeq(monitor'.responseTimes, 1, MaxResponseTimes)
                        = monitor.responseTimes]_vars

\* ---------------------------------------------------------- locks: claims

\* g cannot take its next step: it waits for a mutex
Blocked(g) ==
    /\ lk[g] # <<>>
    /\ LET mx == NextOp(g)[2]
       IN \/ /\ At(g, "Lock")
             /\ g \in locks[mx].pending
             /\ locks[mx].writer # "none" \/ locks[mx].readers # {}
          \/ /\ At(g, "RLock")
             /\ locks[mx].writer # "none" \/ locks[mx].pending # {}

\* the goroutines a blocked g waits for: the holders of the mutex and, for a
\* reader, the writers waiting for it
Blockers(g) ==
    LET mx == NextOp(g)[2]
    IN ({locks[mx].writer} \ {"none"}) \cup
       (IF At(g, "Lock") THEN locks[mx].readers ELSE locks[mx].pending)

\* some goroutines wait for one another and will never go on
Deadlocked ==
    \E S \in SUBSET Lockers :
       /\ S # {}
       /\ \A g \in S : Blocked(g) /\ Blockers(g) \cap S # {}

\* a goroutine that asks for a mutex while it holds another holds only the
\* monitor's and asks for the breaker's or the limiter's
LockOrder ==
    \A g \in Lockers :
       (lk[g] # <<>> /\ NextOp(g)[1] \in {"Lock", "RLock"} /\ Held(g) # {})
          => /\ Held(g) = {"m.mu"}
             /\ NextOp(g)[2] \in {"cb.mu", "rl.mu"}

\* C32: no interleaving of concurrent Chat, GetMetrics, GetHealthStatus,
\* ResetCircuitBreakers, ResetMetrics, InjectFault and ClearFaults calls
\* deadlocks: locks are nested only as monitor lock, then breaker or limiter
\* lock, and the monitor lock is never asked for while one of those is held.
C32_NoDeadlock == ~Deadlocked /\ LockOrder

\* no goroutine inside a call is left without a step it or another can take
NeverStuck == ~Deadlocked

\* a goroutine holds the monitor's lock for reading and waits for the
\* limiter's, which another holds, while a third waits to write the monitor
C32_Witness ==
    \E g, h, k \in Lockers :
       /\ Held(g) = {"m.mu"}
       /\ Blocked(g) /\ NextOp(g)[2] = "rl.mu"
       /\ locks["rl.mu"].writer = h
       /\ Blocked(k) /\ NextOp(k)[2] = "m.mu"

\* ----------------------------------------------- Execute: at least one attempt

\* C33: for every value of MaxAttempts, zero and negative ones included,
\* Execute invokes the operation at least once, and returns a nil error only
\* if some attempt of the operation returned a nil error.
C33_AtLeastOneAttempt ==
    pc = "done" =>
       /\ Len(opLog) >= 1
       /\ rmRet.err = NoError => \E n \in DOMAIN opLog : opLog[n] = NoError

\* the same under MaxAttempts >= 1, which is where the code does it
AtLeastOneAttemptIfPositive ==
    (pc = "done" /\ rmConfig.MaxAttempts >= 1) =>
       /\ Len(opLog) >= 1
       /\ rmRet.err = NoError => \E n \in DOMAIN opLog : opLog[n] = NoError

\* what the code does with MaxAttempts <= 0: no attempt, and "", nil returned
NoAttemptIfNotPositive ==
    (pc = "done" /\ rmConfig.MaxAttempts <= 0) =>
       /\ opLog = <<>>
       /\ rmRet = [result |-> "", err |-> NoError]

\* ------------------------------------------------- monitor: counter sum

\* C34: in every reachable state of the monitor totalRequests is the sum of
\* successfulRequests, failedRequests and rateLimitedRequests, after Reset
\* and under any interleaving of concurrent recorders included.
C34_TotalIsSum ==
    monitor.totalRequests =
       monitor.successfulRequests + monitor.failedRequests
          + monitor.rateLimitedRequests

\* after a Reset, a call of each kind has been recorded while another
\* goroutine is inside a Record* call
C34_Witness ==
    /\ monCalls.reset
    /\ monitor.successfulRequests > 0
    /\ monitor.failedRequests > 0
    /\ monitor.rateLimitedRequests > 0
    /\ \E g \in Goroutines : rec[g].pc # "idle"

\* ------------------------------------------------ one record for each call

\* the steps of a Chat call that record it with the monitor
MonitorRecords ==
    {"Monitor.RecordRateLimited", "Monitor.RecordFailure", "Monitor.RecordSuccess"}

\* the Chat calls that have not returned yet
ChatsInFlight == Cardinality({p \in Callers : chat[p].pc \notin {"idle", "done"}})

\* the Chat calls that have returned: every call starts with one
\* RateLimiter.Allow, which rlLog counts
ChatsCompleted == Len(rlLog) - ChatsInFlight

\* C35: every Chat call that returns has made exactly one monitor record, of
\* the rate-limited, failed or successful kind, and with no Reset
\* totalRequests is the number of completed Chat calls, whatever their
\* outcomes and however many retries they made.
C35_OneRecordEach ==
    /\ \A p \in Callers :
          LET recs == Cardinality(Steps(chat[p].trace, MonitorRecords))
          IN IF chat[p].pc = "done" THEN recs = 1 ELSE recs = 0
    /\ monitor.totalRequests = ChatsCompleted

\* three calls have returned, one rate-limited, one failed after a retry and
\* one successful
C35_Witness ==
    /\ ChatsCompleted = 3
    /\ monitor.rateLimitedRequests = 1
    /\ monitor.failedRequests = 1
    /\ monitor.successfulRequests = 1
    /\ \E p \in Callers :
          /\ chat[p].pc = "done"
          /\ Retries(chat[p].trace) >= 1

\* ------------------------------------- circuit breaker: closed below threshold

\* C36: with FailureThreshold >= 1, in every reachable state where the
\* breaker is Closed its failure counter is strictly below FailureThreshold,
\* for any sequence of Allow, RecordSuccess, RecordFailure and Reset calls.
C36_ClosedBelowThreshold ==
    (cbConfig.FailureThreshold >= 1 /\ state = CircuitClosed)
       => failureCount < cbConfig.FailureThreshold

\* a failure has just been recorded and the breaker is still Closed, one
\* failure below the threshold
C36_Witness ==
    /\ cbConfig.FailureThreshold >= 2
    /\ state = CircuitClosed
    /\ cbObs.op = "RecordFailure"
    /\ failureCount = cbConfig.FailureThreshold - 1

\* ----------------------------------------------- circuit breaker: recovery

\* C37: if the breaker is Open, TestRequestRate > 0, and from then on every
\* attempt succeeds while callers keep calling and time goes on, the breaker
\* becomes Closed in the end (a half-open breaker admitting fairly).
C37_Recovery ==
    (state = CircuitOpen /\ cbConfig.TestRequestRate > 0 /\ now >= HealTime)
       ~> state = CircuitClosed

\* the API has healed, the breaker is Open and has just admitted a probe
\* after the recovery timeout
C37_Witness ==
    /\ state = CircuitOpen
    /\ cbConfig.TestRequestRate > 0
    /\ now >= HealTime
    /\ cbObs.op = "Allow"
    /\ cbObs.ok
    /\ inflight = 1

\* the breaker has closed again after the API healed: the last success was
\* recorded in HalfOpen
RecoveredInTheEnd ==
    /\ state = CircuitClosed
    /\ cbObs.op = "RecordSuccess"
    /\ cbObs.before = CircuitHalfOpen
    /\ lastFailureTime # ZeroTime
    /\ now > HealTime

\* without TestRequestRate > 0 the breaker may stay HalfOpen for ever
RecoveryWhateverRate ==
    (state = CircuitOpen /\ now >= HealTime) ~> state = CircuitClosed

\* ------------------------------------------------- one token for each call

\* C38: each Chat call consults the rate limiter exactly once, as its first
\* step; a call that is not rate-limited takes exactly one token from the
\* refilled bucket, also when the breaker then rejects it, and no later step
\* of the call, retries included, touches the limiter.
C38_OneTokenEach ==
    /\ [](\A p \in Callers :
            LET asked == Steps(chat[p].trace, {"RateLimiter.Allow"})
            IN asked = IF chat[p].pc = "idle" THEN {} ELSE {1})
    /\ [][\A p \in Callers :
            /\ Moves(p, {"idle", "done"}, "cb")
                 => tokens' = Refill(rlConfig, tokens, lastRefill, now) - TokenOne
            /\ Moves(p, {"idle", "done"}, "rlRejected")
                 => tokens' = Refill(rlConfig, tokens, lastRefill, now)
            /\ (chat[p].pc \notin {"idle", "done"} /\ chat'[p] # chat[p])
                 => UNCHANGED rlVars]_vars

\* a call that took a token was rejected by the open breaker, and a call
\* before it made a retry; the limiter was asked twice in all
C38_Witness ==
    \E p, q \in Callers :
       /\ chat[p].pc = "done"
       /\ chat[p].ret.err = ErrCircuitOpen
       /\ chat[p].trace[1] = Step("RateLimiter.Allow", "true")
       /\ chat[q].pc = "done"
       /\ Retries(chat[q].trace) >= 1
       /\ Len(rlLog) = 2

\* ------------------------------------ circuit breaker: failure while Open

\* C39: a RecordFailure received while the breaker is Open leaves the state
\* Open and sets lastFailureTime to now, and Allow returns false until a
\* full RecoveryTimeout has elapsed from that failure (cbObs.reopened: the
\* last failure recorded was received while Open, and no Reset since).
C39_FailureWhileOpen ==
    /\ (cbObs.op = "RecordFailure" /\ cbObs.before = CircuitOpen)
          => state = CircuitOpen
    /\ (cbObs.op = "Allow" /\ cbObs.reopened /\ ~cbObs.ripe) => ~cbObs.ok

\* what the code does: the failure leaves the breaker Open with
\* lastFailureTime = now, and Allow returns false before the timeout for as
\* long as the state is Open
FailureWhileOpenKeepsOpen ==
    /\ (cbObs.op = "RecordFailure" /\ cbObs.before = CircuitOpen)
          => state = CircuitOpen
    /\ (cbObs.op = "Allow" /\ cbObs.before = CircuitOpen /\ ~cbObs.ripe)
          => ~cbObs.ok
    /\ [][(cbObs'.op = "RecordFailure" /\ cbObs' # cbObs)
             => lastFailureTime' = now]_vars

\* ------------------------------------------------ fault registry: data race

\* C40: every modification of the fault registry map, by InjectFault, by
\* ClearFaults or by the cleaning of ShouldFail, is mutually exclusive with
\* every other read or write of it: no two calls access the map at the same
\* time when one of them writes, and the runtime never has cause to stop the
\* process.
C40_MapExclusive ==
    /\ \A g \in Goroutines : ~Races(g)
    /\ ~fiFatal

\* what the code does guarantee: InjectFault and ClearFaults write the map
\* with no other call inside
WriteLockExclusive ==
    \A g \in Goroutines :
       fiCall[g].pc = "locked"
          => \A h \in Goroutines \ {g} : ~Accessing(h)

\* two ShouldFail calls hold the read lock, one about to delete an expired
\* entry while the other ranges over the map
TwoReadersOneDeletes ==
    \E g, h \in Goroutines :
       /\ g # h
       /\ fiCall[g].pc = "clean" /\ Writing(g)
       /\ fiCall[h].pc = "scan"
====
